---------------------------- MODULE Spec2Model ----------------------------
(***************************************************************************)
(* Model of the BMA253 accelerometer driver                                *)
(* (hw/drivers/sensors/bma253/src/bma253.c): the interrupt                 *)
(* synchronisation primitive, the power/bandwidth state machine, the       *)
(* hardware-configuration arbiter, the FIFO drain, the streaming read loop *)
(* and the notification subsystem.                                         *)
(*                                                                         *)
(* A driver call that cannot block is one action.  A call that blocks in   *)
(* wait_interrupt is cut at the blocking points: the critical section of   *)
(* wait_interrupt is one step, os_sem_pend the next.  The interrupt        *)
(* handler preempts the threads and runs to its end: it is one step.       *)
(* Every bus transfer of a call may fail: a call draws a fault plan, the   *)
(* set of the indices of its transfers that fail.                          *)
(***************************************************************************)
EXTENDS Integers, Sequences, FiniteSets, TLC

\* ------------------------------------------------------------------------
\* Bounds of the model
\* ------------------------------------------------------------------------

\* adverse events in one run: calls with a failing transfer, and reads of
\* an unset variable that find something else than the current value
MaxFaults == 1

\* driver calls made in one run
MaxCalls == 3

\* largest frame counter the FIFO status register reports without overrun
MaxFrameCounter == 3

\* ------------------------------------------------------------------------
\* Program constants
\* ------------------------------------------------------------------------

OK      == "SYS_EOK"
EINVAL  == "SYS_EINVAL"
EBUSY   == "SYS_EBUSY"
\* the non-zero result of a failed bus transfer
BUS_ERR == "BUS_ERR"

BMA253_NOTIFY_MASK == "NOTIFY"
BMA253_READ_MASK   == "READ"

PowerModes == {"NORMAL", "DEEP_SUSPEND", "SUSPEND", "STANDBY", "LPM_1", "LPM_2"}

\* enum bma253_filter_bandwidth, in declaration order
BMA253_FILTER_BANDWIDTH_7_81_HZ == 0
BMA253_FILTER_BANDWIDTH_125_HZ  == 4
BMA253_FILTER_BANDWIDTH_1000_HZ == 7
Bandwidths == BMA253_FILTER_BANDWIDTH_7_81_HZ .. BMA253_FILTER_BANDWIDTH_1000_HZ

\* depth of the chip's FIFO in frames
SPEC_MAX_FIFO_DEPTH == 32

\* sensor_event_type_t values the driver supports
EventTypes == {"SINGLE_TAP", "DOUBLE_TAP", "FREE_FALL", "ORIENT_CHANGE",
               "SLEEP", "WAKEUP",
               "ORIENT_X_H_CHANGE", "ORIENT_Y_H_CHANGE", "ORIENT_Z_H_CHANGE",
               "ORIENT_X_L_CHANGE", "ORIENT_Y_L_CHANGE", "ORIENT_Z_L_CHANGE"}

\* dflt_bma253_notif_cfg: event -> int_cfg
dflt_bma253_notif_cfg ==
    [e \in EventTypes |->
        CASE e = "SINGLE_TAP"        -> "SINGLE_TAP_INT"
          [] e = "DOUBLE_TAP"        -> "DOUBLE_TAP_INT"
          [] e = "FREE_FALL"         -> "LOW_G_INT"
          [] e = "ORIENT_CHANGE"     -> "ORIENT_INT"
          [] e = "SLEEP"             -> "SLEEP_INT"
          [] e = "WAKEUP"            -> "WAKEUP_INT"
          [] e = "ORIENT_X_H_CHANGE" -> "HIGH_G_P_X_INT"
          [] e = "ORIENT_Y_H_CHANGE" -> "HIGH_G_P_Y_INT"
          [] e = "ORIENT_Z_H_CHANGE" -> "HIGH_G_P_Z_INT"
          [] e = "ORIENT_X_L_CHANGE" -> "HIGH_G_P_X_INT"
          [] e = "ORIENT_Y_L_CHANGE" -> "HIGH_G_N_Y_INT"
          [] e = "ORIENT_Z_L_CHANGE" -> "HIGH_G_N_Z_INT"]

\* struct int_enable: the flags of INT_EN_0, INT_EN_1 and INT_EN_2
En0Flags == {"flat", "orient", "s_tap", "d_tap", "slope_z", "slope_y", "slope_x"}
En1Flags == {"fifo_wmark", "fifo_full", "data", "low_g",
             "high_g_z", "high_g_y", "high_g_x"}
En2Flags == {"no_motion_select", "slow_no_mot_z", "slow_no_mot_y", "slow_no_mot_x"}

\* struct int_routes: the interrupts of INT_MAP_0/INT_MAP_2 and of INT_MAP_1
Map0Ints == {"flat", "orient", "s_tap", "d_tap", "slow_no_mot", "slope",
             "high_g", "low_g"}
Map1Ints == {"fifo_wmark", "fifo_full", "data"}

\* the registers whose content the model keeps
Regs == {"PMU_LPW", "PMU_LOW_POWER", "PMU_BW",
         "INT_EN_0", "INT_EN_1", "INT_EN_2",
         "INT_MAP_0", "INT_MAP_1", "INT_MAP_2",
         "INT_RST_LATCH", "FIFO_CONFIG_1"}

\* register content after power-on or soft reset
HwReset ==
    [r \in Regs |->
        CASE r = "PMU_LPW"       -> "NORMAL"
          [] r = "PMU_LOW_POWER" -> "LPM_1_CLASS"
          [] r = "PMU_BW"        -> BMA253_FILTER_BANDWIDTH_1000_HZ
          [] r \in {"INT_EN_0", "INT_EN_1", "INT_EN_2",
                    "INT_MAP_0", "INT_MAP_1", "INT_MAP_2"} -> {}
          [] r = "INT_RST_LATCH" -> <<FALSE, "NON_LATCHED">>
          [] r = "FIFO_CONFIG_1" -> "BYPASS"]

\* ------------------------------------------------------------------------
\* Call context: the driver structure, the chip and the host pin as one
\* call sees and changes them, with the effects of the call in order
\* ------------------------------------------------------------------------

\* d: struct bma253, hw: chip registers, gpio: host pin,
\* ops: bus transfers issued so far, fail: indices of the transfers that fail,
\* ub: what the variables hold that are read before they are set,
\* log: the observable effects of the call, rc: last result code
NewCtx(d, h, g, f, ub) ==
    [d |-> d, hw |-> h, gpio |-> g, ops |-> 0, fail |-> f, ub |-> ub,
     log |-> <<>>, rc |-> OK]

Ret(c, rc) == [c EXCEPT !.rc = rc]

\* the effect of a register write on the chip: a soft reset, and entering
\* deep suspend, lose the content of every register
HwWrite(h, addr, data) ==
    IF addr = "BGW_SOFTRESET" THEN HwReset
    ELSE IF addr = "PMU_LPW" /\ data = "DEEP_SUSPEND"
         THEN [HwReset EXCEPT !["PMU_LPW"] = "DEEP_SUSPEND"]
    ELSE IF addr \in Regs THEN [h EXCEPT ![addr] = data]
    ELSE h

\* the delay set_register inserts after the transfer
SetRegisterDelay(power, ok) ==
    IF ~ok \/ power \in {"SUSPEND", "DEEP_SUSPEND", "LPM_1"} THEN "delay_msec"
    ELSE "delay_usecs"

\* set_register: one register write followed by its delay; a failed write
\* leaves the chip unchanged
set_register(c, addr, data) ==
    LET n  == c.ops + 1
        ok == n \notin c.fail
    IN [c EXCEPT !.ops = n,
                 !.log = Append(@, <<"W", addr, data, ok,
                                     SetRegisterDelay(c.d.power, ok)>>),
                 !.hw  = IF ok THEN HwWrite(@, addr, data) ELSE @,
                 !.rc  = IF ok THEN OK ELSE BUS_ERR]

\* get_registers: one burst read of size bytes; the data is c.hw when rc is
\* OK.  A read of no byte is refused before the bus is touched
get_registers(c, addr, size) ==
    IF size = 0 THEN Ret(c, EINVAL)
    ELSE
    LET n  == c.ops + 1
        ok == n \notin c.fail
    IN [c EXCEPT !.ops = n,
                 !.log = Append(@, <<"R", addr, size, ok>>),
                 !.rc  = IF ok THEN OK ELSE BUS_ERR]

get_register(c, addr) == get_registers(c, addr, 1)

\* writes a sequence of <<addr, data>> pairs, stopping at the first failure
RECURSIVE set_registers(_, _)
set_registers(c, ws) ==
    IF ws = <<>> THEN Ret(c, OK)
    ELSE LET c1 == set_register(c, ws[1][1], ws[1][2])
         IN IF c1.rc # OK THEN c1 ELSE set_registers(c1, Tail(ws))

\* an effect of the call that is not a bus transfer
Note(c, e) == [c EXCEPT !.log = Append(@, e)]

\* a call cut where it blocks or can be overtaken: its context, go: it
\* got to the cut (FALSE: it returned), org: what it keeps in its locals
\* across the cut (the int_enable_org of bma253_stream_read)
Returned(c)   == [c |-> c, go |-> FALSE, org |-> {}]
Looping(c, org) == [c |-> c, go |-> TRUE, org |-> org]

\* the value of a function of one argument, at that argument: it names the
\* result of a step for the steps that follow it,
\*     Then([c1 \in {step(c)} |-> ... c1 ...])
Then(f) == f[CHOOSE x \in DOMAIN f : TRUE]

\* ------------------------------------------------------------------------
\* Interrupt synchronisation primitive (struct bma253_int)
\*   intr.active : the handler fired with no waiter (edge latched)
\*   intr.asleep : a waiter is armed
\*   intr.wait   : tokens of the semaphore
\* ------------------------------------------------------------------------

init_interrupt == [active |-> FALSE, asleep |-> FALSE, wait |-> 0]

\* a reset that disarms the waiter and keeps the latch
undo_interrupt_armed(d) ==
    [d EXCEPT !.intr.asleep = FALSE]

undo_interrupt(d) ==
    [d EXCEPT !.intr.active = FALSE, !.intr.asleep = FALSE]

\* wait_interrupt as it would be without the test of the latch
wait_interrupt_unlatched(d, level) ==
    IF level THEN [d |-> d, wait |-> FALSE]
    ELSE [d |-> [d EXCEPT !.intr.asleep = TRUE], wait |-> TRUE]

\* the critical section of wait_interrupt; level: the host pin is at its
\* active level.  wait: the caller goes on to os_sem_pend
wait_interrupt(d, level) ==
    IF level THEN [d |-> d, wait |-> FALSE]
    ELSE IF d.intr.active
         THEN [d |-> [d EXCEPT !.intr.active = FALSE], wait |-> FALSE]
         ELSE [d |-> [d EXCEPT !.intr.asleep = TRUE], wait |-> TRUE]

\* wake_interrupt as it would be if it disarmed the waiter and released
\* nothing
wake_interrupt_silent(d) ==
    IF d.intr.asleep
    THEN [d |-> [d EXCEPT !.intr.asleep = FALSE], wake |-> FALSE]
    ELSE [d |-> [d EXCEPT !.intr.active = TRUE], wake |-> FALSE]

\* wake_interrupt as it would be if it released a token for every edge
wake_interrupt_always(d) ==
    IF d.intr.asleep
    THEN [d |-> [d EXCEPT !.intr.asleep = FALSE], wake |-> TRUE]
    ELSE [d |-> [d EXCEPT !.intr.active = TRUE], wake |-> TRUE]

\* the critical section of wake_interrupt.  wake: the caller goes on to
\* os_sem_release
wake_interrupt(d) ==
    IF d.intr.asleep
    THEN [d |-> [d EXCEPT !.intr.asleep = FALSE], wake |-> TRUE]
    ELSE [d |-> [d EXCEPT !.intr.active = TRUE], wake |-> FALSE]

os_sem_release(d) == [d EXCEPT !.intr.wait = @ + 1]
os_sem_pend(d)    == [d EXCEPT !.intr.wait = @ - 1]

\* the handler of the pin's interrupt; it runs to its end before any thread
\* runs again
interrupt_handler(d) ==
    IF d.pdd.interrupt # "NULL"
    THEN LET r == wake_interrupt(d)
         IN IF r.wake THEN os_sem_release(r.d) ELSE r.d
    ELSE d

\* ------------------------------------------------------------------------
\* Host interrupt pin, reference counted
\* ------------------------------------------------------------------------

enable_intpin(c) ==
    LET n == c.d.pdd.int_ref_cnt + 1
    IN IF n = 1
       THEN Note([c EXCEPT !.d.pdd.int_ref_cnt = n, !.gpio.irq_enabled = TRUE],
                 <<"hal_gpio_irq_enable">>)
       ELSE [c EXCEPT !.d.pdd.int_ref_cnt = n]

disable_intpin(c) ==
    IF c.d.pdd.int_ref_cnt = 0 THEN c
    ELSE LET n == c.d.pdd.int_ref_cnt - 1
         IN IF n = 0
            THEN Note([c EXCEPT !.d.pdd.int_ref_cnt = n,
                                !.gpio.irq_enabled = FALSE],
                      <<"hal_gpio_irq_disable">>)
            ELSE [c EXCEPT !.d.pdd.int_ref_cnt = n]

\* ------------------------------------------------------------------------
\* Register encode/decode of the interrupt enables, routes and latch
\* ------------------------------------------------------------------------

\* struct int_enable as the set of the flags that are set
IntEnableOf(h) == h["INT_EN_0"] \cup h["INT_EN_1"] \cup h["INT_EN_2"]

bma253_get_int_enable(c) == get_registers(c, "INT_EN_0", 3)

\* the write/read-back loop on INT_EN_0.  A read-back that fails leaves regv
\* unset: c.ub says whether it then compares equal
RECURSIVE IntEn0Loop(_, _, _)
IntEn0Loop(c, data0, retry) ==
    Then([c1 \in {set_register(c, "INT_EN_0", data0)} |->
      IF c1.rc # OK THEN c1 ELSE
      Then([c2 \in {get_registers(c1, "INT_EN_0", 1)} |->
        IF \/ retry = 0
           \/ IF c2.rc = OK THEN c2.hw["INT_EN_0"] = data0 ELSE c2.ub.eq
        THEN c2
        ELSE IntEn0Loop(c2, data0, retry - 1)])])

bma253_set_int_enable(c, int_enable) ==
    Then([c1 \in {IntEn0Loop(c, int_enable \cap En0Flags, 2)} |->
      IF c1.rc # OK /\ c1.log[Len(c1.log)][1] = "W" THEN c1
      ELSE set_registers(c1, << <<"INT_EN_1", int_enable \cap En1Flags>>,
                                <<"INT_EN_2", int_enable \cap En2Flags>> >>)])

\* struct int_routes: interrupt -> set of the pins (1, 2) it is routed to
IntRoutesOf(h) ==
    [i \in Map0Ints \cup Map1Ints |->
        IF i \in Map0Ints
        THEN (IF i \in h["INT_MAP_0"] THEN {1} ELSE {}) \cup
             (IF i \in h["INT_MAP_2"] THEN {2} ELSE {})
        ELSE {p \in {1, 2} : <<i, p>> \in h["INT_MAP_1"]}]

bma253_get_int_routes(c) == get_registers(c, "INT_MAP_0", 3)

IntRoutesWrites(int_routes) ==
    << <<"INT_MAP_0", {i \in Map0Ints : 1 \in int_routes[i]}>>,
       <<"INT_MAP_1", {<<i, p>> \in Map1Ints \X {1, 2} : p \in int_routes[i]}>>,
       <<"INT_MAP_2", {i \in Map0Ints : 2 \in int_routes[i]}>> >>

bma253_set_int_routes(c, int_routes) ==
    set_registers(c, IntRoutesWrites(int_routes))

bma253_set_int_latch(c, reset_ints, int_latch) ==
    set_register(c, "INT_RST_LATCH", <<reset_ints, int_latch>>)

bma253_set_filter_bandwidth(c, filter_bandwidth) ==
    IF filter_bandwidth \notin Bandwidths THEN Ret(c, EINVAL)
    ELSE set_register(c, "PMU_BW", filter_bandwidth)

bma253_set_fifo_cfg(c, fifo_mode) ==
    set_register(c, "FIFO_CONFIG_1", fifo_mode)

\* rewriting FIFO_CONFIG_1 with its own content clears the FIFO
bma253_clear_fifo(c) ==
    Then([c1 \in {get_register(c, "FIFO_CONFIG_1")} |->
      IF c1.rc # OK THEN c1
      ELSE set_register(c1, "FIFO_CONFIG_1", c1.hw["FIFO_CONFIG_1"])])

\* ------------------------------------------------------------------------
\* Power/bandwidth state machine
\* ------------------------------------------------------------------------

\* bit 6 of PMU_LOW_POWER selects the STANDBY/LPM_2 flavour
LowPowerClass(power_mode) ==
    IF power_mode \in {"STANDBY", "LPM_2"} THEN "LPM_2_CLASS" ELSE "LPM_1_CLASS"

\* the delay that follows a change of the power mode
PowerSettled(c) ==
    IF c.d.power \in {"SUSPEND", "DEEP_SUSPEND", "LPM_1"}
    THEN Note(c, <<"delay_msec">>) ELSE c

bma253_set_power_settings(c, power_mode) ==
    IF power_mode \notin PowerModes THEN Ret(c, EINVAL)
    ELSE
    Then([c1 \in {set_register(c, "PMU_LOW_POWER", LowPowerClass(power_mode))} |->
      IF c1.rc # OK THEN c1 ELSE
      Then([c2 \in {IF power_mode = "NORMAL" THEN bma253_clear_fifo(c1) ELSE c1} |->
        IF c2.rc # OK THEN c2 ELSE
        Then([c3 \in {set_register(c2, "PMU_LPW", power_mode)} |->
          IF c3.rc # OK THEN c3 ELSE
          Then([c4 \in {PowerSettled([c3 EXCEPT !.d.power = power_mode])} |->
            IF power_mode = "SUSPEND" THEN bma253_clear_fifo(c4)
            ELSE Ret(c4, OK)])])])])

\* runs register-group setters in order; a group whose result the caller
\* checks stops the sequence when it fails
RECURSIVE RunSetters(_, _)
RunSetters(c, gs) ==
    IF gs = <<>> THEN Ret(c, OK)
    ELSE LET c1 == set_registers(c, gs[1].ws)
         IN IF c1.rc # OK /\ gs[1].checked THEN c1
            ELSE RunSetters(c1, Tail(gs))

Setter(ws, checked) == [ws |-> ws, checked |-> checked]

\* the routes reset_and_recfg programs
RecfgRoutes(int_route) ==
    [i \in Map0Ints \cup Map1Ints |->
        IF i \in {"orient", "slow_no_mot", "slope", "high_g", "low_g", "data"}
        THEN int_route ELSE {}]

\* the setters of reset_and_recfg that follow the bandwidth
RecfgSetters(d) ==
    << Setter(<< <<"ACCD_HBW", "cfg">> >>, TRUE),
       Setter(IntRoutesWrites(RecfgRoutes(d.pdd.int_route)), TRUE),
       Setter(<< <<"INT_SRC", "cfg">> >>, TRUE),
       Setter(<< <<"INT_OUT_CTRL", "cfg">> >>, TRUE),
       Setter(<< <<"INT_RST_LATCH", <<FALSE, "NON_LATCHED">> >> >>, TRUE),
       Setter(<< <<"INT_5", "cfg">>, <<"INT_7", "cfg">> >>, FALSE),
       Setter(<< <<"INT_5", "cfg">>, <<"INT_6", "cfg">> >>, FALSE),
       Setter(<< <<"INT_0", "cfg">>, <<"INT_1", "cfg">>, <<"INT_2", "cfg">> >>, TRUE),
       Setter(<< <<"INT_2", "cfg">>, <<"INT_3", "cfg">>, <<"INT_4", "cfg">> >>, TRUE),
       Setter(<< <<"INT_8", "cfg">>, <<"INT_9", "cfg">> >>, TRUE),
       Setter(<< <<"INT_A", "cfg">>, <<"INT_B", "cfg">> >>, TRUE),
       Setter(<< <<"BGW_SPI3_WDT", "cfg">> >>, TRUE),
       Setter(<< <<"OFC_OFFSET_X", "cfg">> >>, TRUE),
       Setter(<< <<"OFC_OFFSET_Y", "cfg">> >>, TRUE),
       Setter(<< <<"OFC_OFFSET_Z", "cfg">> >>, TRUE),
       Setter(<< <<"FIFO_CONFIG_1", "BYPASS">> >>, TRUE) >>

reset_and_recfg(c) ==
    \* bma253_set_softreset: the read that follows the reset is not checked
    Then([c1 \in {set_register([c EXCEPT !.d.power = "NORMAL"],
                               "BGW_SOFTRESET", "SOFT_RESET")} |->
      IF c1.rc # OK THEN c1 ELSE
      Then([c2 \in {set_register(
                      Ret(get_register(Note(c1, <<"delay_msec">>), "PMU_RANGE"),
                          OK),
                      "PMU_RANGE", c.d.cfg.g_range)} |->
        IF c2.rc # OK THEN c2 ELSE
        Then([c3 \in {bma253_set_filter_bandwidth(
                        c2, c.d.cfg.filter_bandwidth)} |->
          IF c3.rc # OK THEN c3 ELSE
          RunSetters([c3 EXCEPT !.d.bandwidth_curr = c.d.cfg.filter_bandwidth],
                     RecfgSetters(c.d))])])])

\* a change of power that goes through NORMAL between any two other modes
NeedsStep1_any(power, target) ==
    power # "NORMAL" /\ target # "NORMAL" /\ power # target

\* the two power classes between which the chip cannot move directly
NeedsStep1(power, target) ==
    \/ power \in {"SUSPEND", "LPM_1"} /\ target \in {"STANDBY", "LPM_2"}
    \/ power \in {"STANDBY", "LPM_2"} /\ target \in {"SUSPEND", "LPM_1"}

\* a change of power that goes to the target at once
change_power_direct(c, target) ==
    Then([c0 \in {IF c.d.power = "DEEP_SUSPEND" THEN reset_and_recfg(c)
                  ELSE c} |->
      IF c0.rc # OK THEN c0 ELSE
      IF c0.d.power # target THEN bma253_set_power_settings(c0, target)
      ELSE Ret(c0, OK)])

change_power(c, target) ==
    Then([c0 \in {IF c.d.power = "DEEP_SUSPEND" THEN reset_and_recfg(c)
                  ELSE c} |->
      IF c0.rc # OK THEN c0 ELSE
      \* step1_move
      Then([c1 \in {IF NeedsStep1(c0.d.power, target)
                    THEN bma253_set_power_settings(c0, "NORMAL") ELSE c0} |->
        IF c1.rc # OK THEN c1 ELSE
        \* step2_move
        IF c0.d.power # target THEN bma253_set_power_settings(c1, target)
        ELSE Ret(c1, OK)])])

InSeq(x, s) == \E i \in 1 .. Len(s) : s[i] = x

\* an interim_power that looks at the first request only
interim_power_first(c, reqs) ==
    IF Len(reqs) = 0 THEN Ret(c, EINVAL)
    ELSE IF c.d.power = reqs[1] THEN Ret(c, OK)
    ELSE change_power(c, reqs[1])

interim_power(c, reqs) ==
    IF Len(reqs) = 0 THEN Ret(c, EINVAL)
    ELSE IF InSeq(c.d.power, reqs) THEN Ret(c, OK)
    ELSE change_power(c, reqs[1])

default_power(c) ==
    IF c.d.cfg.power_mode = c.d.power THEN Ret(c, OK)
    ELSE change_power(c, c.d.cfg.power_mode)

\* the request most callers pass to interim_power
AwakeModes == <<"LPM_1", "LPM_2", "NORMAL">>

\* ------------------------------------------------------------------------
\* Hardware-configuration arbiter
\* ------------------------------------------------------------------------

\* the power mode bma253_arbitrate_hw_cfg asks for
\* a target that puts the enabled events before a read
ArbitratePm_events(daq_req_new, daq_in_proc, ev_enabled) ==
    IF ev_enabled # {} THEN "LPM_1"
    ELSE IF daq_req_new \/ daq_in_proc THEN "NORMAL"
    ELSE "SUSPEND"

ArbitratePm(daq_req_new, daq_in_proc, ev_enabled) ==
    IF daq_req_new \/ daq_in_proc THEN "NORMAL"
    ELSE IF ev_enabled # {} THEN "LPM_1"
    ELSE "SUSPEND"

\* a target that floors the bandwidth whether or not a read is active
ArbitrateBw_floor(daq_req_new, daq_in_proc, ev_enabled, filter_bandwidth) ==
    IF "DOUBLE_TAP" \in ev_enabled
          /\ filter_bandwidth < BMA253_FILTER_BANDWIDTH_125_HZ
    THEN BMA253_FILTER_BANDWIDTH_125_HZ
    ELSE filter_bandwidth

\* the bandwidth bma253_arbitrate_hw_cfg asks for
ArbitrateBw(daq_req_new, daq_in_proc, ev_enabled, filter_bandwidth) ==
    IF "DOUBLE_TAP" \in ev_enabled
    THEN IF daq_in_proc \/ daq_req_new
         THEN IF filter_bandwidth < BMA253_FILTER_BANDWIDTH_125_HZ
              THEN BMA253_FILTER_BANDWIDTH_125_HZ
              ELSE filter_bandwidth
         ELSE BMA253_FILTER_BANDWIDTH_1000_HZ
    ELSE filter_bandwidth

bma253_exec_pending_hw_cfg(c) ==
    Then([c1 \in {IF c.d.pending_hw_cfg_pm # c.d.power
                  THEN change_power(c, c.d.pending_hw_cfg_pm)
                  ELSE Ret(c, OK)} |->
      IF c1.rc # OK THEN c1 ELSE
      IF c.d.pending_hw_cfg_bw # c1.d.bandwidth_curr
      THEN Then([c2 \in {bma253_set_filter_bandwidth(
                           c1, c.d.pending_hw_cfg_bw)} |->
             IF c2.rc # OK THEN c2
             ELSE [c2 EXCEPT !.d.bandwidth_curr = c.d.pending_hw_cfg_bw]])
      ELSE c1])

\* an arbiter that applies its target whatever is in progress
bma253_arbitrate_hw_cfg_now(c) ==
    Then([c1 \in {IF ArbitratePm(c.d.daq_req_new, c.d.daq_in_proc,
                                 c.d.ev_enabled) # c.d.power
                  THEN change_power(c, ArbitratePm(c.d.daq_req_new,
                                                   c.d.daq_in_proc,
                                                   c.d.ev_enabled))
                  ELSE Ret(c, OK)} |->
      IF c1.rc # OK THEN c1 ELSE
      Then([c2 \in {bma253_set_filter_bandwidth(
                      c1, ArbitrateBw(c.d.daq_req_new, c.d.daq_in_proc,
                                      c.d.ev_enabled,
                                      c.d.cfg.filter_bandwidth))} |->
        IF c2.rc # OK THEN c2 ELSE
        [c2 EXCEPT !.d.bandwidth_curr = c2.hw["PMU_BW"]]])])

\* an arbiter that applies its target and leaves the FIFO as it is
ArbitrateDecide_keep(c, daq_req_new, daq_in_proc) ==
    IF daq_in_proc
    THEN Ret([c EXCEPT !.d.hw_cfg_pending = TRUE,
                       !.d.pending_hw_cfg_pm =
                           ArbitratePm(daq_req_new, daq_in_proc, c.d.ev_enabled),
                       !.d.pending_hw_cfg_bw =
                           ArbitrateBw(daq_req_new, daq_in_proc, c.d.ev_enabled,
                                       c.d.cfg.filter_bandwidth)], OK)
    ELSE bma253_exec_pending_hw_cfg(
           [c EXCEPT !.d.pending_hw_cfg_pm =
                         ArbitratePm(daq_req_new, daq_in_proc, c.d.ev_enabled),
                     !.d.pending_hw_cfg_bw =
                         ArbitrateBw(daq_req_new, daq_in_proc, c.d.ev_enabled,
                                     c.d.cfg.filter_bandwidth)])

\* bma253_arbitrate_hw_cfg from the end of its first critical section on:
\* daq_req_new and daq_in_proc are what it read of the two flags there
ArbitrateDecide(c, daq_req_new, daq_in_proc) ==
    LET d  == c.d
        pm == ArbitratePm(daq_req_new, daq_in_proc, d.ev_enabled)
        bw == ArbitrateBw(daq_req_new, daq_in_proc, d.ev_enabled,
                          d.cfg.filter_bandwidth)
    IN IF daq_in_proc
       THEN Ret([c EXCEPT !.d.hw_cfg_pending = TRUE,
                          !.d.pending_hw_cfg_pm = pm,
                          !.d.pending_hw_cfg_bw = bw], OK)
       ELSE
       Then([c1 \in {IF pm # d.power THEN change_power(c, pm)
                     ELSE Ret(c, OK)} |->
         IF c1.rc # OK THEN c1 ELSE
         Then([c2 \in {IF bw # c1.d.bandwidth_curr
                       THEN bma253_set_filter_bandwidth(c1, bw) ELSE c1} |->
           IF c2.rc # OK THEN c2 ELSE
           \* invalidate_data
           IF pm # d.power \/ bw # c1.d.bandwidth_curr
           THEN Ret(bma253_clear_fifo(
                       Note([c2 EXCEPT !.d.bandwidth_curr = bw],
                            <<"delay_msec">>)), OK)
           ELSE Ret(c2, OK)])])

bma253_arbitrate_hw_cfg(c) ==
    ArbitrateDecide(c, c.d.daq_req_new, c.d.daq_in_proc)

\* ------------------------------------------------------------------------
\* Event interrupts of the notification subsystem
\* ------------------------------------------------------------------------

HighGCfgs == {"HIGH_G_P_X_INT", "HIGH_G_P_Y_INT", "HIGH_G_P_Z_INT",
              "HIGH_G_N_X_INT", "HIGH_G_N_Y_INT", "HIGH_G_N_Z_INT"}

\* the int_routes field an event interrupt is routed through
RouteOf(int_cfg) ==
    CASE int_cfg = "DOUBLE_TAP_INT" -> "d_tap"
      [] int_cfg = "SINGLE_TAP_INT" -> "s_tap"
      [] int_cfg = "LOW_G_INT"      -> "low_g"
      [] int_cfg = "ORIENT_INT"     -> "orient"
      [] int_cfg = "SLEEP_INT"      -> "slow_no_mot"
      [] int_cfg = "WAKEUP_INT"     -> "slope"
      [] int_cfg \in HighGCfgs      -> "high_g"

\* the int_enable flags bma253_enable_notify_interrupt sets
EnableFlags(int_cfg) ==
    CASE int_cfg = "DOUBLE_TAP_INT" -> {"d_tap"}
      [] int_cfg = "SINGLE_TAP_INT" -> {"s_tap"}
      [] int_cfg = "LOW_G_INT"      -> {"low_g"}
      [] int_cfg = "ORIENT_INT"     -> {"orient"}
      [] int_cfg = "SLEEP_INT"      -> {"no_motion_select", "slow_no_mot_x",
                                        "slow_no_mot_y", "slow_no_mot_z"}
      [] int_cfg = "WAKEUP_INT"     -> {"slope_x", "slope_y", "slope_z"}
      [] int_cfg \in {"HIGH_G_P_X_INT", "HIGH_G_N_X_INT"} -> {"high_g_x"}
      [] int_cfg \in {"HIGH_G_P_Y_INT", "HIGH_G_N_Y_INT"} -> {"high_g_y"}
      [] int_cfg \in {"HIGH_G_P_Z_INT", "HIGH_G_N_Z_INT"} -> {"high_g_z"}

\* the int_enable flags bma253_disable_notify_interrupt clears
DisableFlags(int_cfg) == EnableFlags(int_cfg) \ {"no_motion_select"}

\* the threshold registers bma253_enable_notify_interrupt programs
EventCfgWrites(int_cfg) ==
    CASE int_cfg = "LOW_G_INT"
           -> << <<"INT_0", "cfg">>, <<"INT_1", "cfg">>, <<"INT_2", "cfg">> >>
      [] int_cfg = "ORIENT_INT"
           -> << <<"INT_A", "cfg">>, <<"INT_B", "cfg">> >>
      [] int_cfg = "SLEEP_INT"
           -> << <<"INT_5", "cfg">>, <<"INT_7", "cfg">> >>
      [] int_cfg = "WAKEUP_INT"
           -> << <<"INT_5", "cfg">>, <<"INT_6", "cfg">> >>
      [] int_cfg \in HighGCfgs
           -> << <<"INT_2", "cfg">>, <<"INT_3", "cfg">>, <<"INT_4", "cfg">> >>
      [] OTHER -> <<>>

bma253_enable_notify_interrupt(c, event) ==
    Then([c1 \in {bma253_get_int_routes(c)} |->
      IF c1.rc # OK THEN c1 ELSE
      Then([c2 \in {bma253_set_int_routes(
                      c1, [IntRoutesOf(c1.hw) EXCEPT
                              ![RouteOf(dflt_bma253_notif_cfg[event])] =
                                  c.d.pdd.int_route])} |->
        IF c2.rc # OK THEN c2 ELSE
        Then([c3 \in {bma253_get_int_enable(c2)} |->
          IF c3.rc # OK THEN c3 ELSE
          \* the latch writes and the threshold writes are not checked
          bma253_set_int_enable(
              bma253_set_int_latch(
                  set_registers(
                      bma253_set_int_latch(c3, TRUE, "TEMPORARY_500_MS"),
                      EventCfgWrites(dflt_bma253_notif_cfg[event])),
                  FALSE, "TEMPORARY_500_MS"),
              IntEnableOf(c3.hw)
                  \cup EnableFlags(dflt_bma253_notif_cfg[event]))])])])

bma253_disable_notify_interrupt(c, event) ==
    Then([c1 \in {bma253_get_int_routes(c)} |->
      IF c1.rc # OK THEN c1 ELSE
      Then([c2 \in {bma253_set_int_routes(
                      c1, IF dflt_bma253_notif_cfg[event] \in HighGCfgs
                          THEN IntRoutesOf(c1.hw)
                          ELSE [IntRoutesOf(c1.hw) EXCEPT
                                  ![RouteOf(dflt_bma253_notif_cfg[event])] =
                                      {}])} |->
        IF c2.rc # OK THEN c2 ELSE
        Then([c3 \in {bma253_get_int_enable(
                        [c2 EXCEPT !.d.ev_enabled = @ \ {event}])} |->
          IF c3.rc # OK THEN c3 ELSE
          bma253_set_int_enable(
              c3, IntEnableOf(c3.hw)
                      \ DisableFlags(dflt_bma253_notif_cfg[event]))])])])

\* bma253_dump_reg reads a range of registers and uses neither the data nor
\* the results: it is one effect, not transfers a fault plan can name
bma253_dump_reg(c) == Note(c, <<"bma253_dump_reg">>)

\* the argument checks of the notification calls: one supported event
\* a validation that looks at the mask of the known events only
ValidEvent_mask(sensor_event_type) ==
    sensor_event_type \subseteq EventTypes /\ sensor_event_type # {}

ValidEvent(sensor_event_type) ==
    /\ sensor_event_type \subseteq EventTypes
    /\ Cardinality(sensor_event_type) = 1

TheEvent(sensor_event_type) == CHOOSE e \in sensor_event_type : TRUE

\* sensor_driver_set_notification up to the end of the first critical
\* section of bma253_arbitrate_hw_cfg.  go: the call got there, and org is
\* what the arbiter read of daq_req_new and daq_in_proc
SetNotificationEnter(c, sensor_event_type) ==
    IF ~ValidEvent(sensor_event_type) THEN Returned(Ret(c, EINVAL))
    ELSE IF BMA253_NOTIFY_MASK \in c.d.pdd.registered_mask
    THEN Returned(Ret(c, EBUSY))
    ELSE
    Then([c1 \in {interim_power(
                    enable_intpin(
                      [c EXCEPT !.d.pdd.notify_ctx.snec_evtype =
                                    @ \cup sensor_event_type,
                                !.d.pdd.registered_mask =
                                    @ \cup {BMA253_NOTIFY_MASK}]),
                    AwakeModes)} |->
      Then([c2 \in {IF c1.rc # OK THEN c1
                    ELSE bma253_dump_reg(
                           bma253_enable_notify_interrupt(
                             c1, TheEvent(sensor_event_type)))} |->
        \* done:
        IF c2.rc # OK
        THEN Returned(Ret(disable_intpin(
                            [c2 EXCEPT !.d.pdd.notify_ctx.snec_evtype =
                                           @ \ sensor_event_type,
                                       !.d.pdd.registered_mask =
                                           @ \ {BMA253_NOTIFY_MASK}]),
                          c2.rc))
        ELSE Looping([c2 EXCEPT !.d.ev_enabled = sensor_event_type],
                     [daq_req_new |-> c2.d.daq_req_new,
                      daq_in_proc |-> c2.d.daq_in_proc])])])

sensor_driver_set_notification(c, sensor_event_type) ==
    Then([r \in {SetNotificationEnter(c, sensor_event_type)} |->
      IF r.go THEN ArbitrateDecide(r.c, r.org.daq_req_new, r.org.daq_in_proc)
      ELSE r.c])

\* request_power is read before it is set: c.ub.pm is what its first element
\* holds, and one of its elements equals the current mode when it does
sensor_driver_unset_notification(c, sensor_event_type) ==
    IF ~ValidEvent(sensor_event_type) THEN Ret(c, EINVAL)
    ELSE
    Then([c1 \in {interim_power(
                    disable_intpin(
                      [c EXCEPT !.d.pdd.notify_ctx.snec_evtype =
                                    @ \ sensor_event_type,
                                !.d.pdd.registered_mask =
                                    @ \ {BMA253_NOTIFY_MASK}]),
                    <<c.ub.pm>>)} |->
      IF c1.rc # OK THEN c1 ELSE
      Then([c2 \in {bma253_disable_notify_interrupt(
                      c1, TheEvent(sensor_event_type))} |->
        IF c2.rc # OK THEN c2 ELSE bma253_dump_reg(c2)])])

\* ------------------------------------------------------------------------
\* FIFO drain
\* ------------------------------------------------------------------------

GRanges == {"G_RANGE_2", "G_RANGE_4", "G_RANGE_8", "G_RANGE_16"}

\* bytes of one FIFO frame (two per axis), 0 for a layout the drain refuses
FrameSize(fifo_data) ==
    IF fifo_data = "X_AND_Y_AND_Z" THEN 6
    ELSE IF fifo_data \in {"X_ONLY", "Y_ONLY", "Z_ONLY"} THEN 2
    ELSE 0

\* the size argument of get_registers is a uint8_t
SizeArg(size) == size % 256

\* data: the byte REG_ADDR_FIFO_STATUS holds
bma253_get_fifo_status(c, data) ==
    LET c1 == get_register(c, "FIFO_STATUS")
    IN [c |-> c1, overrun |-> (data \div 128) % 2 = 1,
        frame_counter |-> data % 128]

\* a drain that trusts the frame counter of an overrun FIFO
DrainCount_counter(ff_or, ff_frm_cnt) == ff_frm_cnt

\* the frame count the drain goes on with
DrainCount(ff_or, ff_frm_cnt) ==
    IF ff_or THEN SPEC_MAX_FIFO_DEPTH ELSE ff_frm_cnt

\* frames lo .. hi - 1 of the buffer, oldest first: each is decoded
\* (compute_accel_data) and handed to the sink
RECURSIVE Frames(_, _)
Frames(lo, hi) ==
    IF hi <= lo THEN <<>>
    ELSE IF hi = lo + 1
    THEN << <<"compute_accel_data", lo>>, <<"SINK", lo>> >>
    ELSE Frames(lo, (lo + hi) \div 2) \o Frames((lo + hi) \div 2, hi)

\* a loop that goes on after the sink returned non-zero
SinkLoop_nostop(c, i, ff_frm_cnt, sink_stop) ==
    [c EXCEPT !.log = @ \o Frames(i, ff_frm_cnt)]

\* the loop over the frames of the buffer, from frame i on: it ends after
\* frame ff_frm_cnt - 1, or after the frame on which the sink returns
\* non-zero: sink_stop is the number of the invocation that does (0: none
\* does)
SinkLoop(c, i, ff_frm_cnt, sink_stop) ==
    [c EXCEPT !.log = @ \o Frames(i, IF sink_stop \in i + 1 .. ff_frm_cnt
                                     THEN sink_stop ELSE ff_frm_cnt)]

\* a drain that reads and clears the FIFO whatever the frame count
FifoBurst_nozero(c, ff_or, ff_frm_cnt, frm_size, sink_stop) ==
    Then([c2 \in {get_registers(c, "FIFO_DATA",
                                ff_frm_cnt * frm_size + 1)} |->
      IF c2.rc # OK THEN c2 ELSE
      Ret(SinkLoop(bma253_clear_fifo(c2), 0, ff_frm_cnt, sink_stop), OK)])

\* a drain that does not look at the result of the burst read
FifoBurst_unchecked(c, ff_or, ff_frm_cnt, frm_size, sink_stop) ==
    IF ff_frm_cnt = 0 THEN Ret(c, OK) ELSE
    Ret(SinkLoop(get_registers(c, "FIFO_DATA",
                               SizeArg(ff_frm_cnt * frm_size)),
                 0, ff_frm_cnt, sink_stop), OK)

\* the drain from the frame count on
FifoBurst(c, ff_or, ff_frm_cnt, frm_size, sink_stop) ==
    IF ff_frm_cnt = 0 THEN Ret(c, OK) ELSE
    Then([c2 \in {get_registers(c, "FIFO_DATA",
                                SizeArg(ff_frm_cnt * frm_size))} |->
      IF c2.rc # OK THEN c2 ELSE
      Ret(SinkLoop(IF ff_or THEN bma253_clear_fifo(c2) ELSE c2,
                   0, ff_frm_cnt, sink_stop), OK)])

bma253_read_and_handle_fifo_data(c, fifo_data, data, sink_stop) ==
    IF c.d.cfg.g_range \notin GRanges THEN Ret(c, EINVAL)
    ELSE IF FrameSize(fifo_data) = 0 THEN Ret(c, EINVAL)
    ELSE
    Then([st \in {bma253_get_fifo_status(c, data)} |->
      IF st.c.rc # OK THEN st.c
      ELSE FifoBurst(st.c, st.overrun,
                     DrainCount(st.overrun, st.frame_counter),
                     FrameSize(fifo_data), sink_stop)])

\* ------------------------------------------------------------------------
\* Interrupt dispatch to the sensor manager
\* ------------------------------------------------------------------------

\* the bit of the interrupt status a notification is raised on
NotifSrc(event) ==
    CASE event = "SINGLE_TAP"        -> "SINGLE_TAP_SRC"
      [] event = "DOUBLE_TAP"        -> "DOUBLE_TAP_SRC"
      [] event = "FREE_FALL"         -> "LOW_G_SRC"
      [] event = "ORIENT_CHANGE"     -> "ORIENT_SRC"
      [] event = "SLEEP"             -> "SLEEP_SRC"
      [] event = "WAKEUP"            -> "WAKEUP_SRC"
      [] event = "ORIENT_X_H_CHANGE" -> "POS_HIGH_G_X_SRC"
      [] event = "ORIENT_Y_H_CHANGE" -> "POS_HIGH_G_Y_SRC"
      [] event = "ORIENT_Z_H_CHANGE" -> "POS_HIGH_G_Z_SRC"
      [] event = "ORIENT_X_L_CHANGE" -> "NEG_HIGH_G_X_SRC"
      [] event = "ORIENT_Y_L_CHANGE" -> "NEG_HIGH_G_Y_SRC"
      [] event = "ORIENT_Z_L_CHANGE" -> "NEG_HIGH_G_Z_SRC"

\* src: the set of the source bits that are set
bma253_notify(c, src, event_type) ==
    IF NotifSrc(event_type) \in src
    THEN Note(c, <<"sensor_mgr_put_notify_evt", event_type>>)
    ELSE c

RECURSIVE NotifyAll(_, _, _)
NotifyAll(c, src, events) ==
    IF events = <<>> THEN c
    ELSE NotifyAll(bma253_notify(c, src, events[1]), src, Tail(events))

\* int_status: status_0 and high_first as sets of source bits, high_sign,
\* and whether the high-g or the low-g interrupt is active
sensor_driver_handle_interrupt(c, int_status) ==
    Then([c1 \in {get_registers(c, "INT_STATUS_0", 4)} |->
      IF c1.rc # OK THEN c1 ELSE
      Then([c2 \in {IF BMA253_NOTIFY_MASK \in c.d.pdd.registered_mask
                    THEN NotifyAll(
                           NotifyAll(c1, int_status.status_0,
                                     <<"SINGLE_TAP", "DOUBLE_TAP", "FREE_FALL",
                                       "ORIENT_CHANGE", "SLEEP", "WAKEUP">>),
                           int_status.high_first,
                           IF int_status.high_sign
                           THEN <<"ORIENT_X_L_CHANGE", "ORIENT_Y_L_CHANGE",
                                  "ORIENT_Z_L_CHANGE">>
                           ELSE <<"ORIENT_X_H_CHANGE", "ORIENT_Y_H_CHANGE",
                                  "ORIENT_Z_H_CHANGE">>)
                    ELSE c1} |->
        IF BMA253_READ_MASK \in c.d.pdd.registered_mask
           /\ int_status.g_int_active
        THEN Ret(Note(c2, <<"sensor_mgr_put_read_evt">>), OK)
        ELSE Ret(c2, OK)])])

\* ------------------------------------------------------------------------
\* Threshold trigger
\* ------------------------------------------------------------------------

LowGCfgWrites  == << <<"INT_0", "cfg">>, <<"INT_1", "cfg">>, <<"INT_2", "cfg">> >>
HighGCfgWrites == << <<"INT_2", "cfg">>, <<"INT_3", "cfg">>, <<"INT_4", "cfg">> >>

\* stt: low, the low threshold has a valid axis; high, the set of the axes
\* of the high threshold that are valid
\* the interrupt enables the thresholds ask for, from those read
TriggerEnable(int_enable, stt) ==
    LET low == IF stt.low THEN int_enable \cup {"low_g"} ELSE int_enable
    IN IF stt.high # {}
       THEN (low \ {"high_g_x", "high_g_y", "high_g_z"})
            \cup {"high_g_" \o a : a \in stt.high}
       ELSE low

sensor_driver_set_trigger_thresh(c, sensor_type, stt) ==
    IF sensor_type # {"ACCELEROMETER"} THEN Ret(c, EINVAL)
    ELSE
    Then([c1 \in {interim_power(
                    enable_intpin(
                      [c EXCEPT !.d.pdd.registered_mask =
                                    @ \cup {BMA253_READ_MASK}]),
                    AwakeModes)} |->
      Then([c2 \in {IF c1.rc # OK THEN c1 ELSE bma253_get_int_enable(c1)} |->
        Then([c3 \in {IF c2.rc = OK /\ stt.low
                      THEN set_registers(c2, LowGCfgWrites) ELSE c2} |->
          Then([c4 \in {IF c3.rc = OK /\ stt.high # {}
                        THEN set_registers(c3, HighGCfgWrites) ELSE c3} |->
            Then([c5 \in {IF c4.rc = OK
                          THEN bma253_set_int_enable(
                                 c4, TriggerEnable(IntEnableOf(c2.hw), stt))
                          ELSE c4} |->
              \* done:
              IF c5.rc # OK
              THEN Ret(disable_intpin(
                         [c5 EXCEPT !.d.pdd.registered_mask =
                                        @ \ {BMA253_READ_MASK}]),
                       c5.rc)
              ELSE c5])])])])])

\* ------------------------------------------------------------------------
\* Streaming read.  bma253_stream_read is cut where it blocks: the part
\* before the loop, one turn of the loop after wait_interrupt, and the exit
\* ------------------------------------------------------------------------

SensorTypes == {"ACCELEROMETER", "AMBIENT_TEMPERATURE"}

\* the label done of bma253_stream_read
StreamDone(c, rc) ==
    Ret(disable_intpin([c EXCEPT !.d.pdd.interrupt = "NULL"]), rc)

\* bma253_stream_read up to the loop
StreamEnter(c, sensor_type) ==
    IF ~(sensor_type \subseteq SensorTypes) THEN Returned(Ret(c, EINVAL))
    ELSE
    Then([c1 \in {interim_power(c, <<"NORMAL">>)} |->
      IF c1.rc # OK THEN Returned(c1) ELSE
      IF c1.d.pdd.interrupt # "NULL"
      THEN Returned(Ret([c1 EXCEPT !.d = undo_interrupt(@)], EBUSY))
      ELSE
      Then([c3 \in {bma253_get_int_enable(
                      enable_intpin(
                        [c1 EXCEPT !.d = undo_interrupt(@),
                                   !.d.pdd.interrupt = "intr"]))} |->
        IF c3.rc # OK THEN Returned(StreamDone(c3, c3.rc)) ELSE
        Then([c4 \in {bma253_set_int_enable(
                        c3, (IntEnableOf(c3.hw) \cap {"s_tap", "d_tap"})
                                \cup {"data"})} |->
          IF c4.rc # OK THEN Returned(StreamDone(c4, c4.rc))
          ELSE Looping(c4, IntEnableOf(c3.hw))])])])

\* bma253_stream_read after the loop
StreamExit(c, int_enable_org) ==
    Then([c1 \in {bma253_set_int_enable(c, int_enable_org)} |->
      IF c1.rc # OK THEN StreamDone(c1, c1.rc) ELSE
      Then([c2 \in {default_power(c1)} |-> StreamDone(c2, c2.rc)])])

\* a turn that does not look at the deadline
StreamTurn_forever(c, int_enable_org, fifo_status, sink_stop, expired, int_status) ==
    Then([c1 \in {bma253_read_and_handle_fifo_data(
                    c, "X_AND_Y_AND_Z", fifo_status, sink_stop)} |->
      IF c1.rc # OK THEN Returned(StreamDone(c1, c1.rc))
      ELSE
      Then([c2 \in {IF c1.d.hw_cfg_pending
                    THEN bma253_exec_pending_hw_cfg(c1) ELSE c1} |->
        IF c2.d.ev_enabled # {}
        THEN Looping(sensor_driver_handle_interrupt(c2, int_status),
                     int_enable_org)
        ELSE Looping(c2, int_enable_org)])])

\* one turn of the loop, from the return of wait_interrupt.  expired: the
\* deadline passed (time_ms is not 0 and the tick count is past stop_ticks)
StreamTurn(c, int_enable_org, fifo_status, sink_stop, expired, int_status) ==
    Then([c1 \in {bma253_read_and_handle_fifo_data(
                    c, "X_AND_Y_AND_Z", fifo_status, sink_stop)} |->
      IF c1.rc # OK THEN Returned(StreamDone(c1, c1.rc))
      ELSE IF expired THEN Returned(StreamExit(c1, int_enable_org))
      ELSE
      Then([c2 \in {IF c1.d.hw_cfg_pending
                    THEN bma253_exec_pending_hw_cfg(c1) ELSE c1} |->
        IF c2.d.ev_enabled # {}
        THEN Looping(sensor_driver_handle_interrupt(c2, int_status),
                     int_enable_org)
        ELSE Looping(c2, int_enable_org)])])

\* sensor_driver_read after bma253_stream_read returned c.rc
SensorReadExit(c) ==
    IF c.d.hw_cfg_pending
    THEN Ret(bma253_exec_pending_hw_cfg(
               [c EXCEPT !.d.daq_req_new = FALSE, !.d.daq_in_proc = FALSE]),
             OK)
    ELSE Ret([c EXCEPT !.d.daq_req_new = FALSE, !.d.daq_in_proc = FALSE], OK)

\* sensor_driver_read, in streaming read mode, up to the loop of
\* bma253_stream_read
SensorReadEnter(c, sensor_type) ==
    IF ~(sensor_type \subseteq SensorTypes) THEN Returned(Ret(c, EINVAL))
    ELSE
    Then([c2 \in {bma253_set_fifo_cfg(
                    [bma253_arbitrate_hw_cfg([c EXCEPT !.d.daq_req_new = TRUE])
                       EXCEPT !.d.daq_req_new = FALSE, !.d.daq_in_proc = TRUE],
                    "STREAM")} |->
      IF c2.rc # OK THEN Returned(c2) ELSE
      Then([r \in {StreamEnter(bma253_dump_reg(c2), sensor_type)} |->
        IF r.go THEN r ELSE Returned(SensorReadExit(r.c))])])

\* ------------------------------------------------------------------------
\* bma253_wait_for_tap, cut at wait_interrupt like the streaming read
\* ------------------------------------------------------------------------

TapTypes == {"SINGLE", "DOUBLE"}

\* the label done of bma253_wait_for_tap: the result is that of the
\* restoring of the routes
TapDone(c, int_routes_org) ==
    bma253_set_int_routes(
        disable_intpin([c EXCEPT !.d.pdd.interrupt = "NULL"]),
        int_routes_org)

\* the routes bma253_wait_for_tap programs
TapRoutes(int_routes_org, tap_type, int_route) ==
    [int_routes_org EXCEPT
        !["d_tap"] = IF tap_type = "DOUBLE" THEN int_route ELSE {},
        !["s_tap"] = IF tap_type = "DOUBLE" THEN {} ELSE int_route]

\* bma253_wait_for_tap up to wait_interrupt; org: int_enable_org and
\* int_routes_org
WaitForTapEnter(c, tap_type) ==
    IF tap_type \notin TapTypes THEN Returned(Ret(c, EINVAL))
    ELSE
    Then([c1 \in {bma253_get_int_routes(c)} |->
      IF c1.rc # OK THEN Returned(c1) ELSE
      Then([c2 \in {bma253_set_int_routes(
                      c1, TapRoutes(IntRoutesOf(c1.hw), tap_type,
                                    c1.d.pdd.int_route))} |->
        IF c2.rc # OK THEN Returned(c2) ELSE
        IF c2.d.pdd.interrupt # "NULL" THEN Returned(Ret(c2, EINVAL)) ELSE
        Then([c3 \in {interim_power(
                        enable_intpin([c2 EXCEPT !.d.pdd.interrupt = "intr"]),
                        AwakeModes)} |->
          IF c3.rc # OK THEN Returned(TapDone(c3, IntRoutesOf(c1.hw))) ELSE
          Then([c4 \in {bma253_get_int_enable(
                          [c3 EXCEPT !.d = undo_interrupt(@)])} |->
            IF c4.rc # OK THEN Returned(c4) ELSE
            Then([c5 \in {bma253_set_int_enable(
                            c4, IF tap_type = "SINGLE" THEN {"s_tap"}
                                ELSE {"d_tap"})} |->
              IF c5.rc # OK
              THEN Returned(TapDone(c5, IntRoutesOf(c1.hw))) ELSE
              Then([c6 \in {bma253_set_int_latch(c5, FALSE, "LATCHED")} |->
                IF c6.rc # OK THEN Returned(c6)
                ELSE Looping([c6 EXCEPT !.d.pdd.registered_mask =
                                            @ \cup {BMA253_NOTIFY_MASK}],
                             [int_enable |-> IntEnableOf(c4.hw),
                              int_routes |-> IntRoutesOf(c1.hw)])])])])])])])

\* bma253_wait_for_tap after wait_interrupt
WaitForTapExit(c, org) ==
    Then([c1 \in {bma253_set_int_enable(
                    bma253_set_int_latch(
                      [c EXCEPT !.d.pdd.registered_mask =
                                    @ \ {BMA253_NOTIFY_MASK}],
                      TRUE, "LATCHED"),
                    org.int_enable)} |->
      IF c1.rc # OK THEN TapDone(c1, org.int_routes)
      ELSE TapDone(default_power(c1), org.int_routes)])

\* ------------------------------------------------------------------------
\* Sample decode
\* ------------------------------------------------------------------------

\* bits of the LSB byte that belong to the sample, and the shift that
\* right-justifies the sample, of the 12-bit device
BMA253_DATA_LSB_MASK == 240
BMA253_ACCEL_BIT_SHIFT == 4

\* a & b and a | b on patterns of n bits
RECURSIVE BitAnd(_, _, _)
BitAnd(a, b, n) ==
    IF n = 0 THEN 0
    ELSE (a % 2) * (b % 2) + 2 * BitAnd(a \div 2, b \div 2, n - 1)

RECURSIVE BitOr(_, _, _)
BitOr(a, b, n) ==
    IF n = 0 THEN 0
    ELSE (IF a % 2 = 1 \/ b % 2 = 1 THEN 1 ELSE 0)
         + 2 * BitOr(a \div 2, b \div 2, n - 1)

\* the conversion of an int to int16_t, and the bits of an int16_t
Int16(x) == IF x % 65536 >= 32768 THEN (x % 65536) - 65536 ELSE x % 65536
Bits16(x) == x % 65536

\* get_accel_scale: the scale is kept by its name
get_accel_scale(g_range) ==
    CASE g_range = "G_RANGE_2"  -> [rc |-> OK, accel_scale |-> "BMA253_G_SCALE_2"]
      [] g_range = "G_RANGE_4"  -> [rc |-> OK, accel_scale |-> "BMA253_G_SCALE_4"]
      [] g_range = "G_RANGE_8"  -> [rc |-> OK, accel_scale |-> "BMA253_G_SCALE_8"]
      [] g_range = "G_RANGE_16" -> [rc |-> OK, accel_scale |-> "BMA253_G_SCALE_16"]
      [] OTHER -> [rc |-> EINVAL, accel_scale |-> "unset"]

\* raw_accel of sample i: the two bytes joined in an int16_t, then shifted
\* right, the sign kept
RawAccel(raw_data, i) ==
    Int16(BitOr(Bits16(Int16(BitAnd(raw_data[2 * i + 1],
                                    BMA253_DATA_LSB_MASK, 8))),
                Bits16(Int16(raw_data[2 * i + 2] * 256)), 16))
        \div (2 ^ BMA253_ACCEL_BIT_SHIFT)

\* a decode that does not keep the sign of the sample
compute_accel_data_unsigned(data_len, raw_data, accel_scale) ==
    [i \in 0 .. data_len - 1 |->
        [accel_g  |-> [raw   |-> (raw_data[2 * i + 1] + raw_data[2 * i + 2] * 256)
                                     \div (2 ^ BMA253_ACCEL_BIT_SHIFT),
                       scale |-> accel_scale],
         new_data |-> BitAnd(raw_data[2 * i + 1], 1, 8)]]

\* compute_accel_data: accel_g is the product raw * scale, kept as its two
\* factors
compute_accel_data(data_len, raw_data, accel_scale) ==
    [i \in 0 .. data_len - 1 |->
        [accel_g  |-> [raw |-> RawAccel(raw_data, i), scale |-> accel_scale],
         new_data |-> BitAnd(raw_data[2 * i + 1], 1, 8)]]

\* bma253_get_accel; data: the bytes the chip holds from REG_ADDR_ACCD_X_LSB
\* on.  The result is the context and accel_data
bma253_get_accel(c, g_range, axis, data) ==
    IF get_accel_scale(g_range).rc # OK
    THEN [c |-> Ret(c, get_accel_scale(g_range).rc), accel_data |-> <<>>]
    ELSE IF axis \notin {"AXIS_ALL", "AXIS_X", "AXIS_Y", "AXIS_Z"}
    THEN [c |-> Ret(c, EINVAL), accel_data |-> <<>>]
    ELSE
    Then([c1 \in {get_registers(
                    c, CASE axis = "AXIS_Y" -> "ACCD_Y_LSB"
                         [] axis = "AXIS_Z" -> "ACCD_Z_LSB"
                         [] OTHER -> "ACCD_X_LSB",
                    IF axis = "AXIS_ALL" THEN 6 ELSE 2)} |->
      IF c1.rc # OK THEN [c |-> c1, accel_data |-> <<>>]
      ELSE [c |-> Ret(c1, OK),
            accel_data |-> compute_accel_data(
                               IF axis = "AXIS_ALL" THEN 3 ELSE 1,
                               CASE axis = "AXIS_Y" -> SubSeq(data, 3, 4)
                                 [] axis = "AXIS_Z" -> SubSeq(data, 5, 6)
                                 [] OTHER -> data,
                               get_accel_scale(g_range).accel_scale)]])

\* ------------------------------------------------------------------------
\* State
\* ------------------------------------------------------------------------

VARIABLES
    bma253,     \* struct bma253: the driver's view of the device
    hw,         \* the registers of the chip
    gpio,       \* the host interrupt pin
    thr,        \* the calling threads: where each is in its call
    faults,     \* adverse events so far
    calls,      \* driver calls made so far
    drain,      \* a drain of the FIFO taken alone: its inputs and outcome
    solo        \* another function taken alone: its inputs and outcome

vars == <<bma253, hw, gpio, thr, faults, calls, drain, solo>>

Threads == {"t1", "t2"}

\* the configuration bma253_config is given
Cfgs ==
    {[power_mode |-> "NORMAL", filter_bandwidth |-> BMA253_FILTER_BANDWIDTH_7_81_HZ,
      g_range |-> "G_RANGE_2", read_mode |-> "STREAM"]}

\* struct bma253 as bma253_init leaves it, with cfg copied by bma253_config
Dev0(cfg) ==
    [power |-> "NORMAL", bandwidth_curr |-> BMA253_FILTER_BANDWIDTH_7_81_HZ,
     ev_enabled |-> {}, daq_req_new |-> FALSE, daq_in_proc |-> FALSE,
     hw_cfg_pending |-> FALSE, pending_hw_cfg_pm |-> "NORMAL",
     pending_hw_cfg_bw |-> BMA253_FILTER_BANDWIDTH_7_81_HZ,
     pdd |-> [interrupt |-> "NULL", int_ref_cnt |-> 0, registered_mask |-> {},
              notify_ctx |-> [snec_evtype |-> {}], int_route |-> {1}],
     intr |-> init_interrupt, cfg |-> cfg]

\* the pin after hal_gpio_irq_init: level, the pin is at its active level
Gpio0 == [level |-> FALSE, irq_enabled |-> FALSE]

NoUb == [eq |-> FALSE, pm |-> "NORMAL"]

\* bma253_config on a bus that works
bma253_config(cfg) ==
    LET c1 == reset_and_recfg(NewCtx(Dev0(cfg), HwReset, Gpio0, {}, NoUb))
    IN default_power(c1)

\* pc: where the thread is; op, arg: its call; org: the int_enable_org of a
\* stream; timed: the stream has a deadline; rc: the result of the call that
\* returned; wfail: a register write failed in the step that returned
Idle == [pc |-> "idle", op |-> "none", arg |-> {}, rc |-> OK, org |-> {},
         timed |-> FALSE, wfail |-> FALSE]

NoDrain == [phase |-> "none"]

NoSolo == [phase |-> "none"]

Init ==
    /\ \E cfg \in Cfgs :
          LET c == bma253_config(cfg)
          IN bma253 = c.d /\ hw = c.hw /\ gpio = c.gpio
    /\ thr = [t \in Threads |-> Idle]
    /\ faults = 0
    /\ calls = 0
    /\ drain = NoDrain
    /\ solo = NoSolo

\* ------------------------------------------------------------------------
\* What the environment chooses
\* ------------------------------------------------------------------------

\* the bus of a call: every transfer works (k = 0), or transfer k fails;
\* eq: a register value read back by a failed transfer compares equal
Bus(k, eq) ==
    [fail |-> IF k = 0 THEN {} ELSE {k}, ub |-> [eq |-> eq, pm |-> "NORMAL"]]

NoFault == Bus(0, FALSE)

\* a call has one failing transfer when the run has a fault left; the
\* failing transfer is one the call gets to: its number is at most the
\* number of transfers the call makes on a bus that works
BusOk(k, eq) ==
    IF k = 0 THEN ~eq ELSE faults < MaxFaults

\* what an unset power mode holds
UbModes == PowerModes \cup {"INVALID"}

EventArgs == {{"SINGLE_TAP"}, {"DOUBLE_TAP"}, {"SINGLE_TAP", "DOUBLE_TAP"}}

SensorTypeArgs == {{"ACCELEROMETER"}, {"LIGHT"}}

SttArgs == {[low |-> TRUE, high |-> {}], [low |-> FALSE, high |-> {"x"}]}

\* bytes of REG_ADDR_FIFO_STATUS: bit 7 overrun, bits 6..0 the frame counter
FifoStatusBytes == (0 .. MaxFrameCounter) \cup (128 .. 128 + MaxFrameCounter)

FifoStatusEnv == {0, 1, 128}

IntStatusEnv ==
    {[status_0 |-> {"SINGLE_TAP_SRC", "DOUBLE_TAP_SRC"}, high_first |-> {},
      high_sign |-> FALSE, g_int_active |-> TRUE]}

Ctx(b) == NewCtx(bma253, hw, gpio, b.fail, b.ub)

\* the call ran into a failing transfer
Faulted(c) == \E k \in c.fail : k <= c.ops

Commit(c) ==
    /\ bma253' = c.d /\ hw' = c.hw /\ gpio' = c.gpio
    /\ faults' = IF Faulted(c) THEN faults + 1 ELSE faults

\* a result is taken before anything else happens
NoneReturning == \A u \in DOMAIN thr : thr[u].pc # "ret"

CanCall(t) ==
    /\ thr[t].pc = "idle" /\ NoneReturning
    /\ calls < MaxCalls
    /\ calls' = calls + 1

\* a register write of the call failed
WriteFailed(c) ==
    \E i \in 1 .. Len(c.log) : c.log[i][1] = "W" /\ ~c.log[i][4]

\* the call op(arg) of thread t returned from context c
Returns(t, op, arg, c) ==
    thr' = [thr EXCEPT ![t] = [Idle EXCEPT !.pc = "ret", !.op = op,
                                           !.arg = arg, !.rc = c.rc,
                                           !.wfail = WriteFailed(c)]]

\* the call op(arg) of thread t reached wait_interrupt in the loop of
\* bma253_stream_read
Loops(t, op, arg, org, timed) ==
    thr' = [thr EXCEPT ![t] = [pc |-> "wait", op |-> op, arg |-> arg,
                               rc |-> OK, org |-> org, timed |-> timed,
                               wfail |-> FALSE]]

\* ------------------------------------------------------------------------
\* Driver calls
\* ------------------------------------------------------------------------

SetNotification(t) ==
    /\ CanCall(t)
    /\ \E ev \in EventArgs :
          LET n == sensor_driver_set_notification(Ctx(NoFault), ev).ops
          IN \E k \in 0 .. n, eq \in BOOLEAN :
                /\ BusOk(k, eq)
                /\ LET c == sensor_driver_set_notification(Ctx(Bus(k, eq)), ev)
                   IN Commit(c) /\ Returns(t, "set_notification", ev, c)
    /\ UNCHANGED <<drain, solo>>

UnsetNotification(t) ==
    /\ CanCall(t)
    /\ \E ev \in EventArgs, pm \in UbModes :
          LET odd == pm # bma253.power /\ ValidEvent(ev)
              ub  == [NoFault EXCEPT !.ub.pm = pm]
              n   == sensor_driver_unset_notification(Ctx(ub), ev).ops
          IN /\ odd => faults < MaxFaults
             /\ \E k \in 0 .. n, eq \in BOOLEAN :
                   /\ BusOk(k, eq)
                   /\ k > 0 => ~odd
                   /\ LET c == sensor_driver_unset_notification(
                                  Ctx([Bus(k, eq) EXCEPT !.ub.pm = pm]), ev)
                      IN /\ bma253' = c.d /\ hw' = c.hw /\ gpio' = c.gpio
                         /\ faults' = IF Faulted(c) \/ odd THEN faults + 1
                                      ELSE faults
                         /\ Returns(t, "unset_notification", ev, c)
    /\ UNCHANGED <<drain, solo>>

SetTriggerThresh(t) ==
    /\ CanCall(t)
    /\ \E ty \in SensorTypeArgs, stt \in SttArgs :
          LET n == sensor_driver_set_trigger_thresh(Ctx(NoFault), ty, stt).ops
          IN \E k \in 0 .. n, eq \in BOOLEAN :
                /\ BusOk(k, eq)
                /\ LET c == sensor_driver_set_trigger_thresh(
                               Ctx(Bus(k, eq)), ty, stt)
                   IN Commit(c) /\ Returns(t, "set_trigger_thresh", ty, c)
    /\ UNCHANGED <<drain, solo>>

\* op enters the loop of bma253_stream_read or returns
StreamCall(t, op, r, ty, timed) ==
    /\ Commit(r.c)
    /\ IF r.go THEN Loops(t, op, ty, r.org, timed)
       ELSE Returns(t, op, ty, r.c)

StreamRead(t) ==
    /\ CanCall(t)
    /\ \E ty \in SensorTypeArgs, timed \in BOOLEAN :
          LET n == StreamEnter(Ctx(NoFault), ty).c.ops
          IN \E k \in 0 .. n, eq \in BOOLEAN :
                /\ BusOk(k, eq)
                /\ StreamCall(t, "stream_read",
                              StreamEnter(Ctx(Bus(k, eq)), ty), ty, timed)
    /\ UNCHANGED <<drain, solo>>

SensorRead(t) ==
    /\ CanCall(t)
    /\ \E ty \in SensorTypeArgs, timed \in BOOLEAN :
          LET n == SensorReadEnter(Ctx(NoFault), ty).c.ops
          IN \E k \in 0 .. n, eq \in BOOLEAN :
                /\ BusOk(k, eq)
                /\ StreamCall(t, "sensor_driver_read",
                              SensorReadEnter(Ctx(Bus(k, eq)), ty), ty, timed)
    /\ UNCHANGED <<drain, solo>>

\* the critical section of wait_interrupt
WaitInterrupt(t) ==
    /\ thr[t].pc = "wait" /\ NoneReturning
    /\ LET r == wait_interrupt(bma253, gpio.level)
       IN /\ bma253' = r.d
          /\ thr' = [thr EXCEPT ![t].pc = IF r.wait THEN "pend" ELSE "run"]
    /\ UNCHANGED <<hw, gpio, faults, calls, drain, solo>>

\* os_sem_pend returns
SemPend(t) ==
    /\ thr[t].pc = "pend" /\ NoneReturning
    /\ bma253.intr.wait > 0
    /\ bma253' = os_sem_pend(bma253)
    /\ thr' = [thr EXCEPT ![t].pc = "run"]
    /\ UNCHANGED <<hw, gpio, faults, calls, drain, solo>>

\* one turn of the loop for thread t and, when the loop ends, the rest of
\* its call
StreamRest(t, b, fifo_status, sink_stop, expired, int_status) ==
    LET r == StreamTurn(Ctx(b), thr[t].org, fifo_status, sink_stop, expired,
                        int_status)
    IN IF ~r.go /\ thr[t].op = "sensor_driver_read"
       THEN Returned(SensorReadExit(r.c)) ELSE r

StreamLoop(t) ==
    /\ thr[t].pc = "run" /\ NoneReturning
    /\ \E fifo_status \in FifoStatusEnv, sink_stop \in {0, 1},
          expired \in {FALSE, thr[t].timed}, int_status \in IntStatusEnv :
          LET n == StreamRest(t, NoFault, fifo_status, sink_stop, expired,
                              int_status).c.ops
          IN \E k \in 0 .. n, eq \in BOOLEAN :
                /\ BusOk(k, eq)
                /\ LET r == StreamRest(t, Bus(k, eq), fifo_status, sink_stop,
                                       expired, int_status)
                   IN /\ Commit(r.c)
                      /\ IF r.go THEN thr' = [thr EXCEPT ![t].pc = "wait"]
                         ELSE Returns(t, thr[t].op, thr[t].arg, r.c)
    /\ UNCHANGED <<calls, drain, solo>>

\* the caller takes the result
Return(t) ==
    /\ thr[t].pc = "ret"
    /\ thr' = [thr EXCEPT ![t] = Idle]
    /\ UNCHANGED <<bma253, hw, gpio, faults, calls, drain, solo>>

\* ------------------------------------------------------------------------
\* The interrupt line
\* ------------------------------------------------------------------------

\* the chip drives the pin to its active level: with the pin's interrupt
\* enabled on the host, the handler runs
PinRise ==
    /\ ~gpio.level /\ NoneReturning
    /\ gpio' = [gpio EXCEPT !.level = TRUE]
    /\ bma253' = IF gpio.irq_enabled THEN interrupt_handler(bma253) ELSE bma253
    /\ UNCHANGED <<hw, thr, faults, calls, drain, solo>>

PinFall ==
    /\ gpio.level /\ NoneReturning
    /\ gpio' = [gpio EXCEPT !.level = FALSE]
    /\ UNCHANGED <<bma253, hw, thr, faults, calls, drain, solo>>

Next ==
    \/ \E t \in DOMAIN thr : SetNotification(t)
    \/ \E t \in DOMAIN thr : UnsetNotification(t)
    \/ \E t \in DOMAIN thr : SetTriggerThresh(t)
    \/ \E t \in DOMAIN thr : StreamRead(t)
    \/ \E t \in DOMAIN thr : SensorRead(t)
    \/ \E t \in DOMAIN thr : WaitInterrupt(t)
    \/ \E t \in DOMAIN thr : SemPend(t)
    \/ \E t \in DOMAIN thr : StreamLoop(t)
    \/ \E t \in DOMAIN thr : Return(t)
    \/ PinRise
    \/ PinFall

Spec == Init /\ [][Next]_vars

\* ------------------------------------------------------------------------
\* One caller: the interrupt handler against one thread
\* ------------------------------------------------------------------------

InitOne ==
    /\ \E cfg \in Cfgs :
          LET c == bma253_config(cfg)
          IN bma253 = c.d /\ hw = c.hw /\ gpio = c.gpio
    /\ thr = [t \in {"t1"} |-> Idle]
    /\ faults = 0
    /\ calls = 0
    /\ drain = NoDrain
    /\ solo = NoSolo

\* a thread whose semaphore has a token is scheduled in the end
SpecOne == InitOne /\ [][Next]_vars /\ WF_vars(SemPend("t1"))

\* ------------------------------------------------------------------------
\* The streaming callers against the interrupt handler: the calls that reset
\* the primitive (undo_interrupt), wait on it and signal it
\* ------------------------------------------------------------------------

NextSync ==
    \/ \E t \in DOMAIN thr : StreamRead(t)
    \/ \E t \in DOMAIN thr : WaitInterrupt(t)
    \/ \E t \in DOMAIN thr : SemPend(t)
    \/ \E t \in DOMAIN thr : StreamLoop(t)
    \/ \E t \in DOMAIN thr : Return(t)
    \/ PinRise
    \/ PinFall

SpecSync == Init /\ [][NextSync]_vars

\* ------------------------------------------------------------------------
\* The FIFO drain taken alone
\* ------------------------------------------------------------------------

FifoDataArgs == {"X_AND_Y_AND_Z", "X_ONLY", "Y_ONLY", "Z_ONLY", "NONE"}

\* the transfers of a drain: status, burst, and the two of the clear
DrainTransfers == 0 .. 4

InitFifo ==
    /\ \E cfg \in Cfgs, g \in GRanges \cup {"INVALID"} :
          LET c == bma253_config(cfg)
          IN /\ bma253 = [c.d EXCEPT !.cfg.g_range = g]
             /\ hw = c.hw /\ gpio = c.gpio
    /\ thr = [t \in {"t1"} |-> Idle]
    /\ faults = 0
    /\ calls = 0
    /\ \E fifo_data \in FifoDataArgs, data \in FifoStatusBytes,
          sink_stop \in 0 .. SPEC_MAX_FIFO_DEPTH, k \in DrainTransfers :
          drain = [phase |-> "in", fifo_data |-> fifo_data, data |-> data,
                   sink_stop |-> sink_stop, k |-> k]
    /\ solo = NoSolo

\* bma253_read_and_handle_fifo_data on the inputs drawn
Drain ==
    /\ drain.phase = "in"
    /\ LET c == bma253_read_and_handle_fifo_data(
                   Ctx(Bus(drain.k, FALSE)), drain.fifo_data, drain.data,
                   drain.sink_stop)
       IN /\ bma253' = c.d /\ hw' = c.hw /\ gpio' = c.gpio
          /\ drain' = [phase |-> "out", fifo_data |-> drain.fifo_data,
                       data |-> drain.data, sink_stop |-> drain.sink_stop,
                       k |-> drain.k, rc |-> c.rc, log |-> c.log]
    /\ UNCHANGED <<thr, faults, calls, solo>>

NextFifo == Drain

SpecFifo == InitFifo /\ [][NextFifo]_vars

\* ------------------------------------------------------------------------
\* change_power taken alone
\* ------------------------------------------------------------------------

\* the transfers of a change of power: those of reset_and_recfg and of two
\* bma253_set_power_settings; 0 is the bus that works
PowerTransfers == 0 .. 40

\* the device brought to power mode p by bma253_set_power_settings after
\* bma253_config, on a bus that works
InPower(cfg, p) ==
    bma253_set_power_settings(
        NewCtx(bma253_config(cfg).d, bma253_config(cfg).hw,
               bma253_config(cfg).gpio, {}, NoUb), p)

InitPower ==
    /\ \E cfg \in Cfgs, p \in PowerModes, target \in PowerModes,
          k \in PowerTransfers :
          /\ bma253 = [InPower(cfg, p).d EXCEPT !.cfg.power_mode = target]
          /\ hw = InPower(cfg, p).hw
          /\ gpio = InPower(cfg, p).gpio
          /\ solo = [phase |-> "in", power |-> p, target |-> target, k |-> k]
    /\ thr = [t \in {"t1"} |-> Idle]
    /\ faults = 0
    /\ calls = 0
    /\ drain = NoDrain

\* change_power on the inputs drawn
ChangePower ==
    /\ solo.phase = "in"
    /\ LET c == change_power(Ctx(Bus(solo.k, FALSE)), solo.target)
       IN /\ bma253' = c.d /\ hw' = c.hw /\ gpio' = c.gpio
          /\ solo' = [phase |-> "out", power |-> solo.power,
                      target |-> solo.target, k |-> solo.k,
                      rc |-> c.rc, log |-> c.log]
    /\ UNCHANGED <<thr, faults, calls, drain>>

\* default_power on the inputs drawn: the target is the configured mode
DefaultPower ==
    /\ solo.phase = "in"
    /\ LET c == default_power(Ctx(Bus(solo.k, FALSE)))
       IN /\ bma253' = c.d /\ hw' = c.hw /\ gpio' = c.gpio
          /\ solo' = [phase |-> "default", power |-> solo.power,
                      target |-> solo.target, k |-> solo.k,
                      rc |-> c.rc, log |-> c.log]
    /\ UNCHANGED <<thr, faults, calls, drain>>

\* the requests interim_power is given: those of its callers (NORMAL alone;
\* LPM_1, LPM_2, NORMAL), others, and none
ReqArgs ==
    {<<>>, <<"NORMAL">>, AwakeModes, <<"STANDBY", "SUSPEND">>,
     <<"DEEP_SUSPEND">>}

\* interim_power on the inputs drawn and a request
InterimPower ==
    /\ solo.phase = "in"
    /\ \E reqs \in ReqArgs :
          LET c == interim_power(Ctx(Bus(solo.k, FALSE)), reqs)
          IN /\ bma253' = c.d /\ hw' = c.hw /\ gpio' = c.gpio
             /\ solo' = [phase |-> "interim", power |-> solo.power,
                         target |-> solo.target, k |-> solo.k, reqs |-> reqs,
                         rc |-> c.rc, log |-> c.log]
    /\ UNCHANGED <<thr, faults, calls, drain>>

NextPower == ChangePower \/ DefaultPower \/ InterimPower

SpecPower == InitPower /\ [][NextPower]_vars

\* ------------------------------------------------------------------------
\* The arbiter taken alone
\* ------------------------------------------------------------------------

\* the first transfers of an arbitration, one of which may fail
ArbTransfers == 0 .. 4

EvEnabledArgs == {{}, {"SINGLE_TAP"}, {"DOUBLE_TAP"}}

BandwidthArgs == {BMA253_FILTER_BANDWIDTH_7_81_HZ,
                  BMA253_FILTER_BANDWIDTH_125_HZ,
                  BMA253_FILTER_BANDWIDTH_1000_HZ}

\* the driver in power mode p with events ev enabled, the configured
\* bandwidth bw and the bandwidth cur on the chip, a read requested (rq) or
\* in progress (ip)
ArbDev(cfg, p, ev, bw, cur, rq, ip) ==
    [InPower(cfg, p).d EXCEPT !.ev_enabled = ev, !.cfg.filter_bandwidth = bw,
                              !.bandwidth_curr = cur, !.daq_req_new = rq,
                              !.daq_in_proc = ip]

InitArb ==
    /\ \E cfg \in Cfgs, p \in PowerModes, ev \in EvEnabledArgs,
          bw \in BandwidthArgs, cur \in BandwidthArgs, rq \in BOOLEAN,
          ip \in BOOLEAN, k \in ArbTransfers :
          /\ bma253 = ArbDev(cfg, p, ev, bw, cur, rq, ip)
          /\ hw = [InPower(cfg, p).hw EXCEPT !["PMU_BW"] = cur]
          /\ gpio = InPower(cfg, p).gpio
          /\ solo = [phase |-> "in", k |-> k]
    /\ thr = [t \in {"t1"} |-> Idle]
    /\ faults = 0
    /\ calls = 0
    /\ drain = NoDrain

\* bma253_arbitrate_hw_cfg on the state drawn; pre: the driver before it
Arbitrate ==
    /\ solo.phase = "in"
    /\ LET c == bma253_arbitrate_hw_cfg(Ctx(Bus(solo.k, FALSE)))
       IN /\ bma253' = c.d /\ hw' = c.hw /\ gpio' = c.gpio
          /\ solo' = [phase |-> "arbitrated", k |-> solo.k, pre |-> bma253,
                      rc |-> c.rc, log |-> c.log]
    /\ UNCHANGED <<thr, faults, calls, drain>>

\* the end of sensor_driver_read: the read is over, and what was deferred
\* is applied; mid: the driver before it
ExecPending ==
    /\ solo.phase = "arbitrated"
    /\ bma253.hw_cfg_pending
    /\ LET c == bma253_exec_pending_hw_cfg(
                   [Ctx(Bus(solo.k, FALSE)) EXCEPT !.d.daq_req_new = FALSE,
                                                   !.d.daq_in_proc = FALSE])
       IN /\ bma253' = c.d /\ hw' = c.hw /\ gpio' = c.gpio
          /\ solo' = [phase |-> "applied", k |-> solo.k, pre |-> solo.pre,
                      mid |-> bma253, rc |-> c.rc, log |-> c.log]
    /\ UNCHANGED <<thr, faults, calls, drain>>

NextArb == Arbitrate \/ ExecPending

SpecArb == InitArb /\ [][NextArb]_vars

\* ------------------------------------------------------------------------
\* Each driver call taken alone, valid arguments or not, up to where it
\* returns or first blocks
\* ------------------------------------------------------------------------

TapTypeArgs == {"SINGLE", "DOUBLE", "NONE"}

ArgTransfers == 0 .. 12

\* the calls and the arguments drawn for them
CallArgs ==
    ({"sensor_driver_read", "stream_read"} \X (SensorTypeArgs \cup
         {{"ACCELEROMETER", "LIGHT"}, {"ACCELEROMETER", "AMBIENT_TEMPERATURE"}}))
    \cup ({"set_notification", "unset_notification"} \X (EventArgs \cup
         {{"UNKNOWN"}, {}}))
    \cup ({"set_trigger_thresh"} \X (SensorTypeArgs \cup
         {{"ACCELEROMETER", "AMBIENT_TEMPERATURE"}}))
    \cup ({"wait_for_tap"} \X TapTypeArgs)

InitArgs ==
    /\ \E cfg \in Cfgs, p \in PowerModes, ca \in CallArgs, k \in ArgTransfers,
          stt \in SttArgs, pm \in UbModes :
          /\ bma253 = InPower(cfg, p).d
          /\ hw = InPower(cfg, p).hw
          /\ gpio = InPower(cfg, p).gpio
          /\ ca[1] # "set_trigger_thresh" => stt = [low |-> TRUE, high |-> {}]
          /\ ca[1] # "unset_notification" => pm = "NORMAL"
          /\ solo = [phase |-> "in", op |-> ca[1], arg |-> ca[2], k |-> k,
                     stt |-> stt, pm |-> pm]
    /\ thr = [t \in {"t1"} |-> Idle]
    /\ faults = 0
    /\ calls = 0
    /\ drain = NoDrain

\* the call drawn is op, on the bus drawn
ArgCall(op) == solo.phase = "in" /\ solo.op = op

ArgCtx == Ctx([Bus(solo.k, FALSE) EXCEPT !.ub.pm = solo.pm])

\* the call returned, or blocks in wait_interrupt, from context r.c; pre,
\* pre_hw, pre_gpio: the driver, the chip and the pin before the call
ArgDone(r) ==
    /\ bma253' = r.c.d /\ hw' = r.c.hw /\ gpio' = r.c.gpio
    /\ solo' = [phase |-> IF r.go THEN "wait" ELSE "out", op |-> solo.op,
                arg |-> solo.arg, k |-> solo.k, stt |-> solo.stt,
                pm |-> solo.pm, rc |-> r.c.rc, log |-> r.c.log,
                org |-> r.org, pre |-> bma253, pre_hw |-> hw,
                pre_gpio |-> gpio]
    /\ UNCHANGED <<thr, faults, calls, drain>>

ArgSensorRead ==
    ArgCall("sensor_driver_read") /\ ArgDone(SensorReadEnter(ArgCtx, solo.arg))

ArgStreamRead ==
    ArgCall("stream_read") /\ ArgDone(StreamEnter(ArgCtx, solo.arg))

ArgSetNotification ==
    /\ ArgCall("set_notification")
    /\ ArgDone(Returned(sensor_driver_set_notification(ArgCtx, solo.arg)))

ArgUnsetNotification ==
    /\ ArgCall("unset_notification")
    /\ ArgDone(Returned(sensor_driver_unset_notification(ArgCtx, solo.arg)))

ArgSetTriggerThresh ==
    /\ ArgCall("set_trigger_thresh")
    /\ ArgDone(Returned(sensor_driver_set_trigger_thresh(ArgCtx, solo.arg,
                                                         solo.stt)))

ArgWaitForTap ==
    ArgCall("wait_for_tap") /\ ArgDone(WaitForTapEnter(ArgCtx, solo.arg))

\* the tap interrupt woke the call: bma253_wait_for_tap runs to its end
ArgTapWoken ==
    /\ solo.phase = "wait" /\ solo.op = "wait_for_tap"
    /\ LET c == WaitForTapExit(
                   Ctx([Bus(0, FALSE) EXCEPT !.ub.pm = solo.pm]), solo.org)
       IN /\ bma253' = c.d /\ hw' = c.hw /\ gpio' = c.gpio
          /\ solo' = [solo EXCEPT !.phase = "woken", !.rc = c.rc,
                                  !.log = solo.log \o c.log]
    /\ UNCHANGED <<thr, faults, calls, drain>>

NextArgs ==
    \/ ArgSensorRead
    \/ ArgStreamRead
    \/ ArgSetNotification
    \/ ArgUnsetNotification
    \/ ArgSetTriggerThresh
    \/ ArgWaitForTap
    \/ ArgTapWoken

SpecArgs == InitArgs /\ [][NextArgs]_vars

\* ------------------------------------------------------------------------
\* The sample decode taken alone
\* ------------------------------------------------------------------------

LsbArgs == {0, 1, 15, 16, 17, 128, 240, 255}
MsbArgs == {0, 1, 7, 8, 127, 128, 129, 248, 255}

AxisArgs == {"AXIS_ALL", "AXIS_X", "AXIS_Y", "AXIS_Z", "NONE"}

InitDecode ==
    /\ \E cfg \in Cfgs, g_range \in GRanges \cup {"NONE"}, axis \in AxisArgs,
          lsb \in LsbArgs, msb \in MsbArgs, k \in {0, 1} :
          /\ bma253 = bma253_config(cfg).d
          /\ hw = bma253_config(cfg).hw
          /\ gpio = bma253_config(cfg).gpio
          /\ solo = [phase |-> "in", g_range |-> g_range, axis |-> axis,
                     lsb |-> lsb, msb |-> msb, k |-> k]
    /\ thr = [t \in {"t1"} |-> Idle]
    /\ faults = 0
    /\ calls = 0
    /\ drain = NoDrain

\* bma253_get_accel on the inputs drawn: the x sample is lsb, msb, the y
\* sample their complements, the z sample lsb and the complement of msb
GetAccel ==
    /\ solo.phase = "in"
    /\ LET r == bma253_get_accel(
                   Ctx(Bus(solo.k, FALSE)), solo.g_range, solo.axis,
                   <<solo.lsb, solo.msb, 255 - solo.lsb, 255 - solo.msb,
                     solo.lsb, 255 - solo.msb>>)
       IN /\ bma253' = r.c.d /\ hw' = r.c.hw /\ gpio' = r.c.gpio
          /\ solo' = [phase |-> "decoded", g_range |-> solo.g_range,
                      axis |-> solo.axis, lsb |-> solo.lsb, msb |-> solo.msb,
                      k |-> solo.k, rc |-> r.c.rc, log |-> r.c.log,
                      accel_data |-> r.accel_data]
    /\ UNCHANGED <<thr, faults, calls, drain>>

NextDecode == GetAccel

SpecDecode == InitDecode /\ [][NextDecode]_vars

\* ------------------------------------------------------------------------
\* The arbiter of one thread against a sensor read of another.
\* sensor_driver_set_notification is cut where bma253_arbitrate_hw_cfg
\* leaves its first critical section: from there on the thread can be
\* overtaken by the thread of thr, which reads
\* ------------------------------------------------------------------------

InitRace ==
    /\ \E cfg \in Cfgs :
          LET c == bma253_config(cfg)
          IN bma253 = c.d /\ hw = c.hw /\ gpio = c.gpio
    /\ thr = [t \in {"t1"} |-> Idle]
    /\ faults = 0
    /\ calls = 0
    /\ drain = NoDrain
    /\ solo = [phase |-> "in"]

\* sensor_driver_set_notification up to what the arbiter reads of the two
\* flags under the lock
NotifyEnter ==
    /\ solo.phase = "in" /\ NoneReturning
    /\ \E ev \in EventArgs :
          LET r == SetNotificationEnter(Ctx(NoFault), ev)
          IN /\ bma253' = r.c.d /\ hw' = r.c.hw /\ gpio' = r.c.gpio
             /\ solo' = IF r.go
                        THEN [phase |-> "read", arg |-> ev,
                              daq_req_new |-> r.org.daq_req_new,
                              daq_in_proc |-> r.org.daq_in_proc]
                        ELSE [phase |-> "refused", arg |-> ev, rc |-> r.c.rc]
    /\ UNCHANGED <<thr, faults, calls, drain>>

\* the rest of bma253_arbitrate_hw_cfg and of the call; in_proc: what
\* daq_in_proc holds while the arbiter issues its transfers
NotifyDecide ==
    /\ solo.phase = "read" /\ NoneReturning
    /\ LET c == ArbitrateDecide(Ctx(NoFault), solo.daq_req_new,
                                solo.daq_in_proc)
       IN /\ bma253' = c.d /\ hw' = c.hw /\ gpio' = c.gpio
          /\ solo' = [phase |-> "decided", arg |-> solo.arg,
                      daq_req_new |-> solo.daq_req_new,
                      daq_in_proc |-> solo.daq_in_proc,
                      in_proc |-> bma253.daq_in_proc,
                      rc |-> c.rc, log |-> c.log]
    /\ UNCHANGED <<thr, faults, calls, drain>>

NextRace ==
    \/ NotifyEnter
    \/ NotifyDecide
    \/ \E t \in DOMAIN thr : SensorRead(t)
    \/ \E t \in DOMAIN thr : WaitInterrupt(t)
    \/ \E t \in DOMAIN thr : SemPend(t)
    \/ \E t \in DOMAIN thr : StreamLoop(t)
    \/ \E t \in DOMAIN thr : Return(t)
    \/ PinRise
    \/ PinFall

SpecRace == InitRace /\ [][NextRace]_vars

\* ------------------------------------------------------------------------
\* sensor_driver_handle_interrupt taken alone, on a device that holds the
\* read trigger of sensor_driver_set_trigger_thresh, the notification of
\* sensor_driver_set_notification, both or none
\* ------------------------------------------------------------------------

NoStt == [low |-> FALSE, high |-> {}]

\* the device after the registrations, made on a bus that works
Registered(cfg, stt, ev) ==
    Then([c0 \in {bma253_config(cfg)} |->
      Then([c1 \in {IF stt = NoStt THEN c0
                    ELSE sensor_driver_set_trigger_thresh(
                           NewCtx(c0.d, c0.hw, c0.gpio, {}, NoFault.ub),
                           {"ACCELEROMETER"}, stt)} |->
        IF ev = {} THEN c1
        ELSE sensor_driver_set_notification(
               NewCtx(c1.d, c1.hw, c1.gpio, {}, NoFault.ub), ev)])])

\* the source bits of int_status_0 the chip raises: those of the interrupts
\* that are enabled in INT_EN_0..INT_EN_2
Status0Env(int_enable) ==
    {s \in {"SINGLE_TAP_SRC", "DOUBLE_TAP_SRC", "LOW_G_SRC", "ORIENT_SRC",
            "SLEEP_SRC", "WAKEUP_SRC"} :
        \/ s = "SINGLE_TAP_SRC" /\ "s_tap" \in int_enable
        \/ s = "DOUBLE_TAP_SRC" /\ "d_tap" \in int_enable
        \/ s = "LOW_G_SRC" /\ "low_g" \in int_enable
        \/ s = "ORIENT_SRC" /\ "orient" \in int_enable
        \/ s = "SLEEP_SRC" /\ "slow_no_mot_x" \in int_enable
        \/ s = "WAKEUP_SRC" /\ "slope_x" \in int_enable}

\* the bits of high_first the chip raises, for the axes whose high-g
\* interrupt is enabled
HighFirstEnv(int_enable) ==
    UNION {{"POS_HIGH_G_" \o a \o "_SRC", "NEG_HIGH_G_" \o a \o "_SRC"} :
             a \in {b \in {"X", "Y", "Z"} :
                      \/ b = "X" /\ "high_g_x" \in int_enable
                      \/ b = "Y" /\ "high_g_y" \in int_enable
                      \/ b = "Z" /\ "high_g_z" \in int_enable}}

DispatchEnv(int_enable) ==
    [status_0 : SUBSET Status0Env(int_enable),
     high_first : SUBSET HighFirstEnv(int_enable),
     high_sign : BOOLEAN,
     g_int_active : {g \in BOOLEAN :
                       g => int_enable \cap {"low_g", "high_g_x", "high_g_y",
                                             "high_g_z"} # {}}]

InitDispatch ==
    /\ \E cfg \in Cfgs, stt \in SttArgs \cup {NoStt},
          ev \in {{e} : e \in EventTypes} \cup {{}} :
          LET c == Registered(cfg, stt, ev)
          IN bma253 = c.d /\ hw = c.hw /\ gpio = c.gpio
    /\ thr = [t \in {"t1"} |-> Idle]
    /\ faults = 0
    /\ calls = 0
    /\ drain = NoDrain
    /\ solo = [phase |-> "in"]

\* one call of sensor_driver_handle_interrupt; k: the transfer that fails,
\* 0 for none
HandleInterrupt ==
    /\ solo.phase = "in"
    /\ \E k \in 0 .. 1, int_status \in DispatchEnv(IntEnableOf(hw)) :
          LET c == sensor_driver_handle_interrupt(Ctx(Bus(k, FALSE)),
                                                  int_status)
          IN /\ bma253' = c.d /\ hw' = c.hw /\ gpio' = c.gpio
             /\ solo' = [phase |-> "dispatched", int_status |-> int_status,
                         k |-> k, rc |-> c.rc, log |-> c.log]
    /\ UNCHANGED <<thr, faults, calls, drain>>

NextDispatch == HandleInterrupt

SpecDispatch == InitDispatch /\ [][NextDispatch]_vars

\* ------------------------------------------------------------------------
\* The enable and the disable of an event interrupt taken alone:
\* sensor_driver_set_notification for one event, then
\* sensor_driver_unset_notification for the same event
\* ------------------------------------------------------------------------

InitNotif ==
    /\ \E cfg \in Cfgs, stt \in SttArgs \cup {NoStt} :
          LET c == Registered(cfg, stt, {})
          IN bma253 = c.d /\ hw = c.hw /\ gpio = c.gpio
    /\ thr = [t \in {"t1"} |-> Idle]
    /\ faults = 0
    /\ calls = 0
    /\ drain = NoDrain
    /\ solo = [phase |-> "in"]

\* before: the routes and the enable flags the call found
EnableNotify ==
    /\ solo.phase = "in"
    /\ \E e \in EventTypes :
          LET n == sensor_driver_set_notification(Ctx(NoFault), {e}).ops
          IN \E k \in 0 .. n :
                LET c == sensor_driver_set_notification(Ctx(Bus(k, FALSE)),
                                                        {e})
                IN /\ bma253' = c.d /\ hw' = c.hw /\ gpio' = c.gpio
                   /\ solo' = [phase |-> "enabled", event |-> e,
                               before |-> [int_routes |-> IntRoutesOf(hw),
                                           int_enable |-> IntEnableOf(hw)],
                               rc |-> c.rc, log |-> c.log]
    /\ UNCHANGED <<thr, faults, calls, drain>>

\* pm: what the unset request_power of sensor_driver_unset_notification holds
DisableNotify ==
    /\ solo.phase = "enabled" /\ solo.rc = OK
    /\ \E pm \in UbModes :
          LET n == sensor_driver_unset_notification(
                     Ctx([NoFault EXCEPT !.ub.pm = pm]), {solo.event}).ops
          IN \E k \in 0 .. n :
                LET c == sensor_driver_unset_notification(
                           Ctx([Bus(k, FALSE) EXCEPT !.ub.pm = pm]),
                           {solo.event})
                IN /\ bma253' = c.d /\ hw' = c.hw /\ gpio' = c.gpio
                   /\ solo' = [phase |-> "disabled", event |-> solo.event,
                               before |-> solo.before, pm |-> pm,
                               power |-> bma253.power,
                               rc |-> c.rc, log |-> c.log]
    /\ UNCHANGED <<thr, faults, calls, drain>>

NextNotif == EnableNotify \/ DisableNotify

SpecNotif == InitNotif /\ [][NextNotif]_vars

\* ------------------------------------------------------------------------
\* The loop of bma253_stream_read against its deadline: one caller, the
\* interrupt handler, and the clock.  expired: what the test of the
\* deadline finds, OS_TIME_TICK_GT(curr_ticks, stop_ticks), in a call that
\* was given a time
\* ------------------------------------------------------------------------

InitStream ==
    /\ \E cfg \in Cfgs :
          LET c == bma253_config(cfg)
          IN bma253 = c.d /\ hw = c.hw /\ gpio = c.gpio
    /\ thr = [t \in {"t1"} |-> Idle]
    /\ faults = 0
    /\ calls = 0
    /\ drain = NoDrain
    /\ solo = [phase |-> "in"]

\* a drain starts with the read of the FIFO status
IsFifoStatusRead(e) == e[1] = "R" /\ e[2] = "FIFO_STATUS"

\* one turn of the loop after wait_interrupt returned; solo keeps what the
\* turn met: the result of the drain and the outcome of the test
StreamTurnAt(t, expired) ==
    /\ thr[t].pc = "run" /\ NoneReturning
    /\ expired => thr[t].timed
    /\ \E fifo_status \in FifoStatusEnv, sink_stop \in {0, 1},
          int_status \in IntStatusEnv :
          LET n == StreamRest(t, NoFault, fifo_status, sink_stop, expired,
                              int_status).c.ops
          IN \E k \in 0 .. n, eq \in BOOLEAN :
                /\ BusOk(k, eq)
                /\ LET r == StreamRest(t, Bus(k, eq), fifo_status, sink_stop,
                                       expired, int_status)
                       d == bma253_read_and_handle_fifo_data(
                              Ctx(Bus(k, eq)), "X_AND_Y_AND_Z", fifo_status,
                              sink_stop)
                   IN /\ Commit(r.c)
                      /\ IF r.go THEN thr' = [thr EXCEPT ![t].pc = "wait"]
                         ELSE Returns(t, thr[t].op, thr[t].arg, r.c)
                      /\ solo' = [phase |-> "turn", expired |-> expired,
                                  timed |-> thr[t].timed,
                                  sink_stop |-> sink_stop,
                                  drain_rc |-> d.rc,
                                  drains |-> Len(SelectSeq(r.c.log,
                                                           IsFifoStatusRead))]
    /\ UNCHANGED <<calls, drain>>

NextStream ==
    \/ \E t \in DOMAIN thr : StreamRead(t)
    \/ \E t \in DOMAIN thr : WaitInterrupt(t)
    \/ \E t \in DOMAIN thr : SemPend(t)
    \/ \E t \in DOMAIN thr, expired \in BOOLEAN : StreamTurnAt(t, expired)
    \/ \E t \in DOMAIN thr : Return(t)
    \/ PinRise
    \/ PinFall

\* the thread runs when it can, the chip raises the pin again when it is
\* low, and the clock passes the deadline of a call that has one
SpecStream ==
    /\ InitStream /\ [][NextStream]_vars
    /\ WF_vars(WaitInterrupt("t1"))
    /\ WF_vars(SemPend("t1"))
    /\ WF_vars(StreamTurnAt("t1", FALSE))
    /\ SF_vars(StreamTurnAt("t1", TRUE))
    /\ WF_vars(PinRise)

\* ------------------------------------------------------------------------
\* Properties of the interrupt synchronisation primitive
\* ------------------------------------------------------------------------

\* the handler runs: the pin goes to its active level with its interrupt
\* enabled on the host
Signal == ~gpio.level /\ gpio'.level /\ gpio.irq_enabled

\* C1.  No missed wakeup, one thread against the interrupt handler.  A
\* thread that enters wait_interrupt goes on without blocking exactly when
\* the pin is at its active level or an edge is latched; a signal that finds
\* the thread armed disarms it and releases exactly one token; a thread in
\* os_sem_pend is armed or has its token, and there is never more than one
\* token; and a thread that is blocked and was signalled runs again.
C1_NoMissedWakeup ==
    /\ [](thr["t1"].pc = "pend"
            => bma253.intr.asleep \/ bma253.intr.wait = 1)
    /\ [](bma253.intr.wait <= 1)
    /\ [][thr["t1"].pc = "wait" /\ thr'["t1"].pc # "wait"
            => thr'["t1"].pc
                 = IF gpio.level \/ bma253.intr.active THEN "run" ELSE "pend"]_vars
    /\ [][Signal /\ thr["t1"].pc = "pend" /\ bma253.intr.asleep
            => ~bma253'.intr.asleep /\ bma253'.intr.wait = 1]_vars
    /\ (thr["t1"].pc = "pend" /\ ~bma253.intr.asleep) ~> thr["t1"].pc = "run"

\* the thread blocked, the signal came after, and its token is there
C1_Witness ==
    thr["t1"].pc = "pend" /\ ~bma253.intr.asleep /\ bma253.intr.wait = 1

\* C2.  Whatever the sequence of undo_interrupt, wait_interrupt and
\* wake_interrupt, the primitive is never armed (asleep) and latched (active)
\* at once.
C2_ArmedOrLatched == ~(bma253.intr.asleep /\ bma253.intr.active)

\* a second stream_read reset the primitive under a blocked thread, and the
\* next signal was latched
C2_Witness ==
    /\ bma253.intr.active
    /\ \E t \in DOMAIN thr : thr[t].pc = "pend"


\* ------------------------------------------------------------------------
\* Properties of the sessions
\* ------------------------------------------------------------------------

\* thread t makes the call op in this step
Calls(t, op) ==
    thr[t].pc = "idle" /\ thr'[t].pc # "idle" /\ thr'[t].op = op

\* C3.  bma253_stream_read for a sensor type it serves, called while
\* pdd->interrupt is held, returns SYS_EBUSY in that one step (it does not
\* block in the loop) and leaves the slot with its holder.
C3_StreamReadBusy ==
    [][\A t \in DOMAIN thr :
          /\ Calls(t, "stream_read")
          /\ thr'[t].arg \subseteq SensorTypes
          /\ bma253.pdd.interrupt # "NULL"
          => /\ thr'[t].pc = "ret"
             /\ thr'[t].rc = EBUSY
             /\ bma253'.pdd.interrupt = bma253.pdd.interrupt]_vars

\* C4.  sensor_driver_set_notification for one event, called while the
\* NOTIFY bit of registered_mask is set, returns SYS_EBUSY and leaves
\* registered_mask, the subscribed event type, ev_enabled and the reference
\* count of the interrupt pin as they were; and the subscribed event type
\* never holds more than one event.
C4_OneSubscription ==
    /\ [][\A t \in DOMAIN thr :
            /\ Calls(t, "set_notification")
            /\ ValidEvent(thr'[t].arg)
            /\ BMA253_NOTIFY_MASK \in bma253.pdd.registered_mask
            => /\ thr'[t].rc = EBUSY
               /\ bma253'.pdd.registered_mask = bma253.pdd.registered_mask
               /\ bma253'.pdd.notify_ctx = bma253.pdd.notify_ctx
               /\ bma253'.ev_enabled = bma253.ev_enabled
               /\ bma253'.pdd.int_ref_cnt = bma253.pdd.int_ref_cnt]_vars
    /\ [](Cardinality(bma253.pdd.notify_ctx.snec_evtype) <= 1)

\* C5.  sensor_driver_set_trigger_thresh for the accelerometer, called while
\* the READ bit of registered_mask is set, returns SYS_EBUSY and leaves
\* registered_mask and the reference count of the interrupt pin as they were.
C5_TriggerThreshBusy ==
    [][\A t \in DOMAIN thr :
          /\ Calls(t, "set_trigger_thresh")
          /\ thr'[t].arg = {"ACCELEROMETER"}
          /\ BMA253_READ_MASK \in bma253.pdd.registered_mask
          => /\ thr'[t].rc = EBUSY
             /\ bma253'.pdd.registered_mask = bma253.pdd.registered_mask
             /\ bma253'.pdd.int_ref_cnt = bma253.pdd.int_ref_cnt]_vars


\* ------------------------------------------------------------------------
\* Properties of the FIFO drain
\* ------------------------------------------------------------------------

\* bma253_read_and_handle_fifo_data ran on a g range and a frame layout it
\* accepts
Drained ==
    /\ drain.phase = "out"
    /\ bma253.cfg.g_range \in GRanges
    /\ FrameSize(drain.fifo_data) # 0

\* what the status byte says
Overrun  == drain.data >= 128
Reported == drain.data % 128

\* the transfers of the drain that fail: the status read is the first
\* transfer, the burst read the second
StatusFails == drain.k = 1
BurstFails  == drain.k = 2

IsBurst(e) == e[1] = "R" /\ e[2] = "FIFO_DATA"
IsSink(e)  == e[1] = "SINK"
IsFrame(e) == e[1] \in {"compute_accel_data", "SINK"}
IsClear(e) == e[1] \in {"R", "W"} /\ e[2] = "FIFO_CONFIG_1"

\* frame 0 decoded and delivered, then frame 1, up to frame m - 1
FramesInOrder(m) ==
    [j \in 1 .. 2 * m |-> IF j % 2 = 1 THEN <<"compute_accel_data", (j - 1) \div 2>>
                          ELSE <<"SINK", (j - 2) \div 2>>]

\* the frames a drain of n frames gets through: all of them, or those up to
\* the one on which the sink asks to stop
Delivered(n) ==
    IF drain.sink_stop \in 1 .. n THEN drain.sink_stop ELSE n

\* C6.  Overrun safety.  When the status byte has the overrun bit, whatever
\* its frame counter (0 included), the drain issues one burst read, of
\* SPEC_MAX_FIFO_DEPTH frames, and when that read succeeds it returns 0 and
\* processes the SPEC_MAX_FIFO_DEPTH frames (those up to the frame on which
\* the sink asks to stop): nothing depends on the counter.
C6_OverrunSafety ==
    Drained /\ ~StatusFails /\ Overrun
    => /\ SelectSeq(drain.log, IsBurst)
            = << <<"R", "FIFO_DATA",
                   SPEC_MAX_FIFO_DEPTH * FrameSize(drain.fifo_data),
                   ~BurstFails>> >>
       /\ ~BurstFails
            => /\ drain.rc = OK
               /\ SelectSeq(drain.log, IsFrame)
                    = FramesInOrder(Delivered(SPEC_MAX_FIFO_DEPTH))

\* overrun with a frame counter of 3: the 32 frames went to the sink
C6_Witness ==
    /\ Drained /\ drain.data = 128 + MaxFrameCounter /\ drain.rc = OK
    /\ Len(SelectSeq(drain.log, IsSink)) = SPEC_MAX_FIFO_DEPTH

\* C7.  A drain whose reads succeed returns 0, and a drain of N frames that
\* returns 0 has decoded and delivered frame 0, then frame 1, and so on, each
\* once: all N frames, or, when the sink asks to stop on its k-th invocation,
\* the first k frames and none after.
C7_SinkOrder ==
    /\ Drained /\ ~StatusFails
         /\ ~(BurstFails /\ DrainCount(Overrun, Reported) > 0)
         => drain.rc = OK
    /\ Drained /\ drain.rc = OK
         => SelectSeq(drain.log, IsFrame)
              = FramesInOrder(Delivered(DrainCount(Overrun, Reported)))

\* three frames in the FIFO, the sink stops on the second
C7_Witness ==
    /\ Drained /\ drain.data = 3 /\ drain.sink_stop = 2 /\ drain.rc = OK
    /\ SelectSeq(drain.log, IsSink) = << <<"SINK", 0>>, <<"SINK", 1>> >>

\* C8.  When the status byte says no overrun and no frame, the drain returns
\* 0 having read the status and done nothing else: no burst read, no FIFO
\* clear, no invocation of the sink.
C8_EmptyFifo ==
    Drained /\ ~StatusFails /\ drain.data = 0
    => /\ drain.rc = OK
       /\ drain.log = << <<"R", "FIFO_STATUS", 1, TRUE>> >>

C8_Witness ==
    Drained /\ drain.data = 0 /\ drain.rc = OK /\ Len(drain.log) = 1

\* C9.  When the read of the FIFO status fails, or the burst read of the
\* FIFO data does, the drain returns the error of that read, which is its
\* last transfer, and has not invoked the sink.
C9_ReadFailure ==
    Drained /\ (StatusFails \/ (BurstFails /\ DrainCount(Overrun, Reported) > 0))
    => /\ drain.rc = BUS_ERR
       /\ drain.log[Len(drain.log)][1] = "R"
       /\ ~drain.log[Len(drain.log)][4]
       /\ SelectSeq(drain.log, IsFrame) = <<>>
       /\ SelectSeq(drain.log, IsClear) = <<>>

\* the burst read of two frames failed
C9_Witness ==
    /\ Drained /\ BurstFails /\ drain.data = 2 /\ drain.rc = BUS_ERR
    /\ Len(drain.log) = 2


\* ------------------------------------------------------------------------
\* Properties of the configuration state
\* ------------------------------------------------------------------------

\* C10.  No partial configuration on failure: when a call of
\* sensor_driver_set_notification, bma253_arbitrate_hw_cfg at its end
\* included, fails with a register write that failed, it returns with power,
\* bandwidth_curr and ev_enabled as they were before it.
C10_NoPartialConfig ==
    [][\A t \in DOMAIN thr :
          /\ Calls(t, "set_notification")
          /\ thr'[t].wfail /\ thr'[t].rc # OK
          => /\ bma253'.power = bma253.power
             /\ bma253'.bandwidth_curr = bma253.bandwidth_curr
             /\ bma253'.ev_enabled = bma253.ev_enabled]_vars


\* ------------------------------------------------------------------------
\* Properties of the power transitions
\* ------------------------------------------------------------------------

\* change_power has run on the inputs drawn
Powered == solo.phase = "out"

\* a register write of the call that failed
FailedWrite(e) == e[1] = "W" /\ ~e[4]

\* C11.  When change_power returns an error because a register write
\* failed, bma253->power is what it was before the call: for a transition
\* in one step, for one staged through NORMAL, and for one that starts in
\* DEEP_SUSPEND.
C11_PowerUnchangedOnError ==
    Powered /\ solo.rc # OK /\ SelectSeq(solo.log, FailedWrite) # <<>>
    => bma253.power = solo.power


\* the writes that select a power mode: REG_ADDR_PMU_LPW carries the mode,
\* REG_ADDR_PMU_LOW_POWER, written before it, the class of the mode
IsModeWrite(e)  == e[1] = "W" /\ e[2] = "PMU_LPW"
IsClassWrite(e) == e[1] = "W" /\ e[2] = "PMU_LOW_POWER"

ModeWrites  == SelectSeq(solo.log, IsModeWrite)
ClassWrites == SelectSeq(solo.log, IsClassWrite)

\* set_register waits after the write w before it returns
Delayed(log, w) ==
    \A i \in 1 .. Len(log) :
        log[i] = w => log[i][5] \in {"delay_msec", "delay_usecs"}

\* C12.  Between the classes {SUSPEND, LPM_1} and {STANDBY, LPM_2}, in
\* either direction, a change_power that succeeds writes the power mode
\* exactly twice, NORMAL first and the target second, the first write
\* followed by its delay before the next transfer, and leaves
\* bma253->power at the target.
C12_Staging ==
    Powered /\ NeedsStep1(solo.power, solo.target) /\ solo.rc = OK
    => /\ Len(ModeWrites) = 2
       /\ ModeWrites[1][3] = "NORMAL" /\ ModeWrites[1][4]
       /\ ModeWrites[2][3] = solo.target /\ ModeWrites[2][4]
       /\ Delayed(solo.log, ModeWrites[1])
       /\ Len(ClassWrites) = 2
       /\ ClassWrites[1][3] = LowPowerClass("NORMAL")
       /\ ClassWrites[2][3] = LowPowerClass(solo.target)
       /\ bma253.power = solo.target

C12_Witness ==
    /\ Powered /\ solo.power = "SUSPEND" /\ solo.target = "STANDBY"
    /\ solo.rc = OK /\ bma253.power = "STANDBY"
    /\ Len(ModeWrites) = 2


\* the place in the effects of the call of its first power-mode write
FirstModeWrite ==
    CHOOSE i \in 1 .. Len(solo.log) :
        /\ IsModeWrite(solo.log[i])
        /\ \A j \in 1 .. i - 1 : ~IsModeWrite(solo.log[j])

\* C13.  When change_power starts in DEEP_SUSPEND, a power-mode write is
\* issued only after the re-initialization has completed successfully: the
\* soft reset and every configuration register write before the power-mode
\* write succeeded; after a re-initialization that failed there is none.
C13_ReinitBeforePower ==
    Powered /\ solo.power = "DEEP_SUSPEND" /\ ModeWrites # <<>>
    => /\ solo.log[1][2] = "BGW_SOFTRESET" /\ solo.log[1][4]
       /\ \A i \in 1 .. FirstModeWrite - 1 :
             solo.log[i][1] = "W" => solo.log[i][4]


\* the transitions the staging rule covers
Staged ==
    \/ solo.power \in {"SUSPEND", "LPM_1"} /\ solo.target \in {"STANDBY", "LPM_2"}
    \/ solo.power \in {"STANDBY", "LPM_2"} /\ solo.target \in {"SUSPEND", "LPM_1"}

\* C23.  A change_power that neither is staged nor starts in DEEP_SUSPEND
\* writes the power mode at most once, and exactly once, with the target,
\* when it succeeds; a request for the mode the device is in, made to
\* change_power or through default_power, makes no transfer at all.
C23_SingleWrite ==
    /\ Powered /\ solo.power # "DEEP_SUSPEND" /\ ~Staged
       => /\ Len(ModeWrites) <= 1
          /\ solo.rc = OK /\ solo.power # solo.target
             => /\ Len(ModeWrites) = 1
                /\ ModeWrites[1][3] = solo.target /\ ModeWrites[1][4]
                /\ Len(ClassWrites) = 1
                /\ bma253.power = solo.target
                /\ hw["PMU_LPW"] = solo.target
          /\ solo.power = solo.target
             => solo.log = <<>> /\ solo.rc = OK /\ bma253.power = solo.power
    /\ solo.phase = "default" /\ solo.power = solo.target
       => solo.log = <<>> /\ solo.rc = OK /\ bma253.power = solo.power

C23_Witness ==
    /\ Powered /\ solo.power = "LPM_2" /\ solo.target = "STANDBY"
    /\ solo.rc = OK /\ bma253.power = "STANDBY"
    /\ Len(ModeWrites) = 1


\* the mode the device was in is one of those requested
Requested(power_mode) ==
    \E i \in 1 .. Len(solo.reqs) : solo.reqs[i] = power_mode

\* C24.  interim_power makes no transfer and leaves the power mode when
\* the device is in one of the requested modes; otherwise it moves the
\* device to the first of them by change_power; after a call that
\* succeeded the device is in one of the requested modes; a request of no
\* mode is refused with SYS_EINVAL.
C24_InterimPower ==
    solo.phase = "interim"
    => /\ Len(solo.reqs) = 0
          => /\ solo.rc = EINVAL /\ solo.log = <<>>
             /\ bma253.power = solo.power
       /\ Requested(solo.power)
          => /\ solo.rc = OK /\ solo.log = <<>>
             /\ bma253.power = solo.power /\ hw["PMU_LPW"] = solo.power
       /\ Len(solo.reqs) > 0 /\ ~Requested(solo.power)
          => /\ \A i \in 1 .. Len(ModeWrites) :
                   ModeWrites[i][3] \in {"NORMAL", solo.reqs[1]}
             /\ solo.rc = OK
                => /\ ModeWrites # <<>>
                      => ModeWrites[Len(ModeWrites)][3] = solo.reqs[1]
                   /\ bma253.power = solo.reqs[1]
                   /\ hw["PMU_LPW"] = solo.reqs[1]
       /\ solo.rc = OK => Requested(bma253.power)

C24_Witness ==
    /\ solo.phase = "interim" /\ solo.reqs = AwakeModes
    /\ solo.power = "STANDBY" /\ solo.rc = OK
    /\ bma253.power = "LPM_1" /\ Len(ModeWrites) = 2


\* ------------------------------------------------------------------------
\* Properties of the arbiter
\* ------------------------------------------------------------------------

Arbitrated == solo.phase \in {"arbitrated", "applied"}
Applied    == solo.phase = "applied"

\* a write of the power mode or of the bandwidth
IsCfgWrite(e) ==
    e[1] = "W" /\ e[2] \in {"PMU_LPW", "PMU_LOW_POWER", "PMU_BW"}

IsBwWrite(e) == e[1] = "W" /\ e[2] = "PMU_BW"

\* the target of the arbitration differs from what the device has
TargetDiffers ==
    \/ ArbitratePm(solo.pre.daq_req_new, solo.pre.daq_in_proc,
                   solo.pre.ev_enabled) # solo.pre.power
    \/ ArbitrateBw(solo.pre.daq_req_new, solo.pre.daq_in_proc,
                   solo.pre.ev_enabled, solo.pre.cfg.filter_bandwidth)
          # solo.pre.bandwidth_curr

\* C14.  An arbitration made while daq_in_proc is set, whose target differs
\* from the power mode or bandwidth of the device, writes neither and
\* stashes the target; bma253_exec_pending_hw_cfg called once daq_in_proc
\* is clear performs exactly the writes that bring the device to the
\* stashed power mode and bandwidth.
C14_DeferredConfig ==
    /\ solo.phase = "arbitrated" /\ solo.pre.daq_in_proc /\ TargetDiffers
       => /\ solo.log = <<>> /\ solo.rc = OK
          /\ hw["PMU_LPW"] = solo.pre.power
          /\ hw["PMU_BW"] = solo.pre.bandwidth_curr
          /\ bma253.power = solo.pre.power
          /\ bma253.bandwidth_curr = solo.pre.bandwidth_curr
          /\ bma253.hw_cfg_pending
          /\ bma253.pending_hw_cfg_pm
                = ArbitratePm(solo.pre.daq_req_new, TRUE, solo.pre.ev_enabled)
          /\ bma253.pending_hw_cfg_bw
                = ArbitrateBw(solo.pre.daq_req_new, TRUE, solo.pre.ev_enabled,
                              solo.pre.cfg.filter_bandwidth)
    /\ Applied /\ solo.pre.daq_in_proc /\ TargetDiffers /\ solo.rc = OK
       => /\ ~bma253.daq_in_proc
          /\ bma253.power = solo.mid.pending_hw_cfg_pm
          /\ hw["PMU_LPW"] = solo.mid.pending_hw_cfg_pm
          /\ bma253.bandwidth_curr = solo.mid.pending_hw_cfg_bw
          /\ hw["PMU_BW"] = solo.mid.pending_hw_cfg_bw
          /\ solo.mid.power = solo.mid.pending_hw_cfg_pm
             => SelectSeq(solo.log, IsModeWrite) = <<>>
          /\ solo.mid.power # "DEEP_SUSPEND"
             => SelectSeq(solo.log, IsBwWrite)
                  = IF solo.mid.bandwidth_curr = solo.mid.pending_hw_cfg_bw
                    THEN <<>>
                    ELSE << <<"W", "PMU_BW", solo.mid.pending_hw_cfg_bw,
                              TRUE, "delay_usecs">> >>

C14_Witness ==
    /\ Applied /\ solo.pre.daq_in_proc /\ solo.rc = OK
    /\ solo.pre.power = "LPM_1" /\ bma253.power = "NORMAL"
    /\ solo.pre.bandwidth_curr = BMA253_FILTER_BANDWIDTH_7_81_HZ
    /\ bma253.bandwidth_curr = BMA253_FILTER_BANDWIDTH_125_HZ
    /\ Len(SelectSeq(solo.log, IsCfgWrite)) = 3


\* the target of the arbitration made: what it stashed when it deferred,
\* what it left the device with when it applied
TargetPm ==
    IF solo.pre.daq_in_proc THEN bma253.pending_hw_cfg_pm ELSE bma253.power

TargetBw ==
    IF solo.pre.daq_in_proc THEN bma253.pending_hw_cfg_bw
    ELSE bma253.bandwidth_curr

\* C15.  The target of bma253_arbitrate_hw_cfg depends on daq_req_new,
\* daq_in_proc and ev_enabled only, whatever the power mode and bandwidth
\* of the device: NORMAL, with the bandwidth not below the configured one,
\* if daq_req_new or daq_in_proc; otherwise LPM_1 if an event is enabled;
\* otherwise SUSPEND.
C15_ArbiterTarget ==
    solo.phase = "arbitrated" /\ solo.rc = OK
    => /\ TargetPm =
            IF solo.pre.daq_req_new \/ solo.pre.daq_in_proc THEN "NORMAL"
            ELSE IF solo.pre.ev_enabled # {} THEN "LPM_1"
            ELSE "SUSPEND"
       /\ solo.pre.daq_req_new \/ solo.pre.daq_in_proc
          => /\ TargetBw >= solo.pre.cfg.filter_bandwidth
             /\ "DOUBLE_TAP" \notin solo.pre.ev_enabled
                => TargetBw = solo.pre.cfg.filter_bandwidth

C15_Witness ==
    /\ solo.phase = "arbitrated" /\ solo.rc = OK
    /\ ~solo.pre.daq_req_new /\ ~solo.pre.daq_in_proc
    /\ solo.pre.ev_enabled = {"SINGLE_TAP"} /\ solo.pre.power = "STANDBY"
    /\ bma253.power = "LPM_1"


\* C25.  The bandwidth target of bma253_arbitrate_hw_cfg: with the
\* double-tap notification enabled and a read requested or in progress, the
\* configured bandwidth raised to 125 Hz when it is below; with double tap
\* enabled and no read, 1000 Hz; without double tap, the configured
\* bandwidth.  With double tap enabled it is never below 125 Hz.
C25_BandwidthTarget ==
    solo.phase = "arbitrated" /\ solo.rc = OK
    => /\ "DOUBLE_TAP" \in solo.pre.ev_enabled
          /\ (solo.pre.daq_req_new \/ solo.pre.daq_in_proc)
          => TargetBw =
               IF solo.pre.cfg.filter_bandwidth < BMA253_FILTER_BANDWIDTH_125_HZ
               THEN BMA253_FILTER_BANDWIDTH_125_HZ
               ELSE solo.pre.cfg.filter_bandwidth
       /\ "DOUBLE_TAP" \in solo.pre.ev_enabled
          /\ ~(solo.pre.daq_req_new \/ solo.pre.daq_in_proc)
          => TargetBw = BMA253_FILTER_BANDWIDTH_1000_HZ
       /\ "DOUBLE_TAP" \notin solo.pre.ev_enabled
          => TargetBw = solo.pre.cfg.filter_bandwidth
       /\ "DOUBLE_TAP" \in solo.pre.ev_enabled
          => TargetBw >= BMA253_FILTER_BANDWIDTH_125_HZ
       /\ ~solo.pre.daq_in_proc => hw["PMU_BW"] = TargetBw

C25_Witness ==
    /\ solo.phase = "arbitrated" /\ solo.rc = OK
    /\ solo.pre.ev_enabled = {"DOUBLE_TAP"}
    /\ solo.pre.daq_req_new /\ ~solo.pre.daq_in_proc
    /\ solo.pre.cfg.filter_bandwidth = BMA253_FILTER_BANDWIDTH_7_81_HZ
    /\ solo.pre.bandwidth_curr = BMA253_FILTER_BANDWIDTH_1000_HZ
    /\ bma253.bandwidth_curr = BMA253_FILTER_BANDWIDTH_125_HZ
    /\ hw["PMU_BW"] = BMA253_FILTER_BANDWIDTH_125_HZ


\* the arbitration was not deferred
Immediate == solo.phase = "arbitrated" /\ ~solo.pre.daq_in_proc

\* the power mode or the bandwidth of the device changed in the call
Changed ==
    \/ bma253.power # solo.pre.power
    \/ bma253.bandwidth_curr # solo.pre.bandwidth_curr

\* the target of the arbitration is what the device had
TargetHeld ==
    /\ ArbitratePm(solo.pre.daq_req_new, solo.pre.daq_in_proc,
                   solo.pre.ev_enabled) = solo.pre.power
    /\ ArbitrateBw(solo.pre.daq_req_new, solo.pre.daq_in_proc,
                   solo.pre.ev_enabled, solo.pre.cfg.filter_bandwidth)
          = solo.pre.bandwidth_curr

\* the effects of the call end with the delay and bma253_clear_fifo
\* (FIFO_CONFIG_1 read and, the read done, written back): no write of the
\* power mode or of the bandwidth follows them
ClearedLast ==
    \E n \in {Len(solo.log) - 2, Len(solo.log) - 1} :
        /\ n >= 1
        /\ solo.log[n] = <<"delay_msec">>
        /\ solo.log[n + 1][1] = "R" /\ solo.log[n + 1][2] = "FIFO_CONFIG_1"
        /\ IF solo.log[n + 1][4]
           THEN /\ Len(solo.log) = n + 2
                /\ solo.log[n + 2][1] = "W"
                /\ solo.log[n + 2][2] = "FIFO_CONFIG_1"
           ELSE Len(solo.log) = n + 1

ReturnsNow(t) == thr[t].pc # "ret" /\ thr'[t].pc = "ret"

\* C16.  A driver call one of whose bus transfers failed returns a non-zero
\* result: no call returns 0 from a step in which a transfer failed.
C16_TransportErrors ==
    [][\A t \in DOMAIN thr :
          ReturnsNow(t) /\ faults' > faults => thr'[t].rc # OK]_vars


\* the arguments the calls refuse
InvalidArgs ==
    \/ /\ solo.op \in {"sensor_driver_read", "stream_read"}
       /\ ~(solo.arg \subseteq {"ACCELEROMETER", "AMBIENT_TEMPERATURE"})
    \/ /\ solo.op \in {"set_notification", "unset_notification"}
       /\ solo.arg \notin {{e} : e \in EventTypes}
    \/ /\ solo.op = "set_trigger_thresh"
       /\ solo.arg # {"ACCELEROMETER"}
    \/ /\ solo.op = "wait_for_tap"
       /\ solo.arg \notin {"SINGLE", "DOUBLE"}

\* C17.  A call given an argument it refuses (a sensor type outside the
\* supported mask, an event that is unknown or not a single one, a tap
\* type that is neither single nor double) returns SYS_EINVAL without any
\* bus transfer, without any other effect, and with the driver structure,
\* the chip and the pin as they were.
C17_InvalidArgs ==
    solo.phase \in {"out", "wait"} /\ InvalidArgs
    => /\ solo.phase = "out" /\ solo.rc = EINVAL
       /\ solo.log = <<>>
       /\ bma253 = solo.pre /\ hw = solo.pre_hw /\ gpio = solo.pre_gpio

C17_Witness ==
    /\ solo.phase = "out" /\ solo.op = "wait_for_tap" /\ solo.arg = "NONE"
    /\ solo.rc = EINVAL /\ solo.log = <<>>
    /\ solo.pre.power = "SUSPEND" /\ bma253.power = "SUSPEND"


\* ------------------------------------------------------------------------
\* Properties of the interrupt pin
\* ------------------------------------------------------------------------

\* the features that hold the pin: the session that owns the interrupt (a
\* streaming read or a wait), the registered notification, the registered
\* read trigger
PinOwners ==
    (IF bma253.pdd.interrupt # "NULL" THEN {"session"} ELSE {})
    \cup bma253.pdd.registered_mask

\* C18.  Whatever calls were made, while a feature holds the interrupt pin
\* its interrupt is enabled on the host, and int_ref_cnt is the number of
\* the features that hold it.
C18_PinRefCount ==
    /\ PinOwners # {} => gpio.irq_enabled
    /\ bma253.pdd.int_ref_cnt = Cardinality(PinOwners)


\* ------------------------------------------------------------------------
\* Properties of the streaming session
\* ------------------------------------------------------------------------

\* C19.  When bma253_stream_read returns from its loop, by the deadline or
\* by an error, the interrupt enables are those read before the loop
\* (int_enable_org), the power mode is the configured one, and the session
\* no longer owns the interrupt.
C19_SessionRestored ==
    [][\A t \in DOMAIN thr :
          /\ thr[t].op = "stream_read"
          /\ thr[t].pc = "run" /\ thr'[t].pc = "ret"
          => /\ IntEnableOf(hw') = thr[t].org
             /\ bma253'.power = bma253'.cfg.power_mode
             /\ bma253'.pdd.interrupt = "NULL"]_vars


\* ------------------------------------------------------------------------
\* Properties of the sample decode
\* ------------------------------------------------------------------------

\* the 12-bit two's-complement number in the upper 12 bits of the
\* little-endian pair lsb, msb
Payload12(lsb, msb) ==
    IF msb * 16 + lsb \div 16 >= 2048
    THEN msb * 16 + lsb \div 16 - 4096
    ELSE msb * 16 + lsb \div 16

\* the bytes of the x sample (the first decoded for AXIS_ALL and AXIS_X)
FirstIsX == solo.axis \in {"AXIS_ALL", "AXIS_X"}

\* C20.  Every two-byte little-endian raw value decodes to its 12-bit
\* two's-complement payload, an integer in -2048..2047 that does not depend
\* on the four low bits, multiplied by the scale of the selected range, for
\* each of the four ranges; a range that is not one of the four is refused
\* with SYS_EINVAL before any read.
C20_SampleDecode ==
    solo.phase = "decoded"
    => /\ solo.g_range \notin GRanges
          => solo.rc = EINVAL /\ solo.log = <<>>
       /\ solo.g_range \in GRanges /\ solo.rc = OK
          => /\ \A i \in DOMAIN solo.accel_data :
                  /\ solo.accel_data[i].accel_g.raw \in -2048 .. 2047
                  /\ solo.accel_data[i].accel_g.scale
                       = CASE solo.g_range = "G_RANGE_2" -> "BMA253_G_SCALE_2"
                           [] solo.g_range = "G_RANGE_4" -> "BMA253_G_SCALE_4"
                           [] solo.g_range = "G_RANGE_8" -> "BMA253_G_SCALE_8"
                           [] solo.g_range = "G_RANGE_16" -> "BMA253_G_SCALE_16"
             /\ FirstIsX
                => solo.accel_data[0].accel_g.raw
                      = Payload12(solo.lsb, solo.msb)
             /\ solo.axis = "AXIS_Y"
                => solo.accel_data[0].accel_g.raw
                      = Payload12(255 - solo.lsb, 255 - solo.msb)
             /\ solo.axis = "AXIS_ALL"
                => /\ solo.accel_data[1].accel_g.raw
                         = Payload12(255 - solo.lsb, 255 - solo.msb)
                   /\ solo.accel_data[2].accel_g.raw
                         = Payload12(solo.lsb, 255 - solo.msb)

C20_Witness ==
    /\ solo.phase = "decoded" /\ solo.rc = OK /\ solo.axis = "AXIS_X"
    /\ solo.g_range = "G_RANGE_8" /\ solo.lsb = 17 /\ solo.msb = 128
    /\ solo.accel_data[0].accel_g = [raw |-> -2047, scale |-> "BMA253_G_SCALE_8"]


\* ------------------------------------------------------------------------
\* Properties of the arbiter against a concurrent read
\* ------------------------------------------------------------------------

\* C21.  With a thread in the arbiter and another in a sensor read, the
\* arbiter issues no write of the power mode or of the bandwidth while
\* daq_in_proc is set: what it read of daq_in_proc still holds when it
\* applies its target.
C21_ArbiterAtomic ==
    solo.phase = "decided" /\ solo.in_proc
    => SelectSeq(solo.log, IsCfgWrite) = <<>>


\* C22.  Once bma253_exec_pending_hw_cfg has run, hw_cfg_pending is clear:
\* what was stashed is applied once, and a later turn of the streaming loop
\* or end of a read, with nothing deferred since, finds nothing to apply.
C22_PendingCleared ==
    Applied => ~bma253.hw_cfg_pending


\* ------------------------------------------------------------------------
\* Properties of the reset of the synchronisation primitive and of the
\* pin-level test
\* ------------------------------------------------------------------------

\* thread t starts a session in this step: its call ran undo_interrupt,
\* took the interrupt and reached the first wait_interrupt of its loop
StartsSession(t) == thr[t].pc = "idle" /\ thr'[t].pc = "wait"

\* C27.  undo_interrupt leaves the primitive idle whatever state it was
\* in: when a session starts, neither a waiter is armed nor an edge
\* latched nor a token left, even if the session before left its latch
\* set; and from then on the latch is set, and a token released, only by a
\* new edge of the pin, so that the first wait of the session goes on
\* without blocking only on an active pin level or on such an edge.
C27_ResetIdle ==
    [][/\ \A t \in DOMAIN thr :
             StartsSession(t) => bma253'.intr = init_interrupt
       /\ ~bma253.intr.active /\ bma253'.intr.active => Signal
       /\ bma253'.intr.wait > bma253.intr.wait => Signal
       /\ \A t \in DOMAIN thr :
             /\ thr[t].pc = "wait" /\ thr'[t].pc = "run"
             /\ ~gpio.level
             => bma253.intr.active]_vars

\* a session ended and left its latch set: no call is in progress, and
\* one more can be made
C27_Witness ==
    /\ bma253.intr.active /\ bma253.pdd.interrupt = "NULL"
    /\ \A t \in DOMAIN thr : thr[t].pc = "idle"
    /\ calls < MaxCalls

\* C28.  A wait_interrupt that returns because the pin is at its active
\* level leaves no signal to consume: after it no edge is latched, so that
\* the next wait_interrupt, made with the pin inactive and no edge since,
\* blocks.
C28_LevelLeavesNoLatch ==
    [][\A t \in DOMAIN thr :
          thr[t].pc = "wait" /\ thr'[t].pc = "run" /\ gpio.level
          => ~bma253'.intr.active]_vars

\* ------------------------------------------------------------------------
\* Properties of the interrupt dispatch
\* ------------------------------------------------------------------------

IsStatusRead(e) == e[1] = "R" /\ e[2] = "INT_STATUS_0"

IsNotify(e) == e[1] = "sensor_mgr_put_notify_evt"

\* the events sensor_driver_handle_interrupt looks at, in its order
DispatchOrder(high_sign) ==
    <<"SINGLE_TAP", "DOUBLE_TAP", "FREE_FALL", "ORIENT_CHANGE", "SLEEP",
      "WAKEUP">>
    \o (IF high_sign
        THEN <<"ORIENT_X_L_CHANGE", "ORIENT_Y_L_CHANGE", "ORIENT_Z_L_CHANGE">>
        ELSE <<"ORIENT_X_H_CHANGE", "ORIENT_Y_H_CHANGE", "ORIENT_Z_H_CHANGE">>)

\* the status mask of the event matches
Matches(e) ==
    NotifSrc(e) \in (IF e \in {"SINGLE_TAP", "DOUBLE_TAP", "FREE_FALL",
                               "ORIENT_CHANGE", "SLEEP", "WAKEUP"}
                     THEN solo.int_status.status_0
                     ELSE solo.int_status.high_first)

\* the notifications of the call as a sequence of events
Notified ==
    [i \in 1 .. Len(SelectSeq(solo.log, IsNotify)) |->
        SelectSeq(solo.log, IsNotify)[i][2]]

EnabledMatch(e) == e \in bma253.ev_enabled /\ Matches(e)

\* C29.  A call of sensor_driver_handle_interrupt reads the interrupt
\* status exactly once.  When the read succeeds and a notification is
\* registered it delivers, in the order single tap, double tap, free fall,
\* orientation change, sleep, wakeup and then the three high-g events of
\* the sign (the negative ones when high_sign is set), one notification for
\* each enabled event whose status mask matches, and no other; when no
\* notification is registered or the read fails it delivers none.
C29_Dispatch ==
    solo.phase = "dispatched"
    => /\ Len(SelectSeq(solo.log, IsStatusRead)) = 1
       /\ \A i \in 1 .. Len(solo.log) :
             solo.log[i][1] \in {"R", "W"} => IsStatusRead(solo.log[i])
       /\ Notified
            = IF solo.rc = OK
                 /\ BMA253_NOTIFY_MASK \in bma253.pdd.registered_mask
              THEN SelectSeq(DispatchOrder(solo.int_status.high_sign),
                             EnabledMatch)
              ELSE <<>>

\* ------------------------------------------------------------------------
\* Properties of the enable and the disable of an event interrupt
\* ------------------------------------------------------------------------

\* the registers of the thresholds, durations and hystereses
IsAuxWrite(e) ==
    e[1] = "W" /\ e[2] \in {"INT_0", "INT_1", "INT_2", "INT_3", "INT_4",
                            "INT_5", "INT_6", "INT_7", "INT_8", "INT_9",
                            "INT_A", "INT_B", "INT_C", "INT_D"}

\* the enable of the event succeeded and so did the disable after it
Reversed == solo.phase = "disabled" /\ solo.rc = OK

\* C30.  For every event of the notification table, after a successful
\* enable followed by a successful disable the route of the event's
\* interrupt and the enable flags the enable set hold what they held before
\* the enable, the event is not in ev_enabled, and the disable wrote none of
\* the threshold, duration and hysteresis registers.
C30_DisableReverses ==
    Reversed
    => /\ IntRoutesOf(hw)[RouteOf(dflt_bma253_notif_cfg[solo.event])]
            = solo.before.int_routes[
                  RouteOf(dflt_bma253_notif_cfg[solo.event])]
       /\ \A f \in EnableFlags(dflt_bma253_notif_cfg[solo.event]) :
             f \in IntEnableOf(hw) <=> f \in solo.before.int_enable
       /\ solo.event \notin bma253.ev_enabled
       /\ SelectSeq(solo.log, IsAuxWrite) = <<>>

\* a write of the sequence of bma253_enable_notify_interrupt: the routes,
\* the latch, the thresholds and the enable flags
IsEnableWrite(e) ==
    e[1] = "W" /\ (IsAuxWrite(e)
                   \/ e[2] \in {"INT_MAP_0", "INT_MAP_1", "INT_MAP_2",
                                "INT_RST_LATCH", "INT_EN_0", "INT_EN_1",
                                "INT_EN_2"})

\* C31.  In the sequence of register writes that enables one event (routes,
\* latch, thresholds, latch, enable flags) the first write that fails ends
\* the sequence: no register of the sequence is written after it, and the
\* call returns the error of that write.
C31_FirstFailureStops ==
    solo.phase = "enabled"
    => \A i \in 1 .. Len(solo.log) :
          IsEnableWrite(solo.log[i]) /\ ~solo.log[i][4]
          => /\ \A j \in (i + 1) .. Len(solo.log) :
                   ~IsEnableWrite(solo.log[j])
             /\ solo.rc = BUS_ERR

\* ------------------------------------------------------------------------
\* Properties of the power mode the driver keeps
\* ------------------------------------------------------------------------

\* C32.  Between calls the power mode the driver keeps is the mode of the
\* chip: the mode of the last write of PMU_LPW that succeeded, or NORMAL
\* after a soft reset that succeeded.  It is never assigned ahead of the
\* write, nor without it.
C32_PowerIsWritten == bma253.power = hw["PMU_LPW"]

\* ------------------------------------------------------------------------
\* Properties of the loop of bma253_stream_read
\* ------------------------------------------------------------------------

\* the thread is in the loop of a call that was given a time
Streaming == thr["t1"].pc \in {"wait", "pend", "run"} /\ thr["t1"].timed

\* the turn of the loop that thread t1 takes in this step
Turn == thr["t1"].pc = "run" /\ thr'["t1"].pc # "run"

\* C33.  A stream read with a time ends when interrupts keep arriving (or
\* the pin stays active) and no transfer fails.  The deadline is tested
\* once a turn, after the drain of the turn; the loop ends at the first
\* test that finds the deadline passed; nothing ends the call while it
\* waits for the interrupt; and without a time the loop ends only when a
\* drain fails.
C33_DeadlineEndsStream ==
    /\ [][Turn => /\ solo'.drains = 1
                  /\ thr'["t1"].pc = "ret"
                       <=> solo'.drain_rc # OK \/ solo'.expired
                  /\ solo'.expired => solo'.timed]_vars
    /\ [][thr["t1"].pc \in {"wait", "pend"}
            => thr'["t1"].pc \in {"wait", "pend", "run"}]_vars
    /\ [][Turn /\ ~thr["t1"].timed /\ thr'["t1"].pc = "ret"
            => solo'.drain_rc # OK]_vars
    /\ (Streaming ~> (thr["t1"].pc = "ret" \/ faults > 0))

\* a turn found the deadline passed after a drain that worked, and the call
\* returned
C33_Witness ==
    /\ solo.phase = "turn" /\ solo.expired /\ solo.drain_rc = OK
    /\ thr["t1"].pc = "ret" /\ faults = 0

\* ------------------------------------------------------------------------
\* Properties of the semaphore of the synchronisation primitive
\* ------------------------------------------------------------------------

\* the threads that are in os_sem_pend
Pending == {t \in DOMAIN thr : thr[t].pc = "pend"}

\* C34.  The semaphore holds at most one token, and none unless a thread
\* that armed the primitive is in os_sem_pend.  A token is released only by
\* a signal that finds the waiter armed and is taken only by the return of
\* os_sem_pend of a waiter, and a thread arms the primitive only with the
\* semaphore empty: no token is left for a later wait.
C34_NoStaleToken ==
    /\ [](bma253.intr.wait <= 1)
    /\ [](bma253.intr.wait > 0
            => Cardinality(Pending) = 1 /\ ~bma253.intr.asleep)
    /\ [][bma253'.intr.wait > bma253.intr.wait
            => /\ Signal /\ bma253.intr.asleep /\ Pending # {}
               /\ bma253'.intr.wait = bma253.intr.wait + 1]_vars
    /\ [][bma253'.intr.wait < bma253.intr.wait
            => /\ \E t \in Pending : thr'[t].pc = "run"
               /\ bma253'.intr.wait = bma253.intr.wait - 1]_vars
    /\ [][~bma253.intr.asleep /\ bma253'.intr.asleep
            => bma253.intr.wait = 0]_vars

\* in a session that is not the first of the run, the signal released the
\* token of the waiter, which has not taken it yet
C34_Witness ==
    calls >= 2 /\ bma253.intr.wait = 1 /\ Cardinality(Pending) = 1

\* ------------------------------------------------------------------------
\* Properties of a streaming read that is refused
\* ------------------------------------------------------------------------

\* C35.  A bma253_stream_read that returns SYS_EBUSY because pdd->interrupt
\* is held leaves the session that holds it as it was: the state of the
\* synchronisation primitive (armed, latched, the semaphore), the slot, the
\* reference count of the pin and the power mode are those of before the
\* call.
C35_RefusedLeavesSession ==
    [][\A t \in DOMAIN thr :
          /\ Calls(t, "stream_read")
          /\ thr'[t].pc = "ret" /\ thr'[t].rc = EBUSY
          => /\ bma253'.intr = bma253.intr
             /\ bma253'.pdd.interrupt = bma253.pdd.interrupt
             /\ bma253'.pdd.int_ref_cnt = bma253.pdd.int_ref_cnt
             /\ bma253'.power = bma253.power]_vars

\* ------------------------------------------------------------------------
\* Properties of the acquisition flags of sensor_driver_read
\* ------------------------------------------------------------------------

\* a thread is inside sensor_driver_read
Reading ==
    \E t \in DOMAIN thr :
       thr[t].op = "sensor_driver_read" /\ thr[t].pc \in {"wait", "pend", "run"}

\* C36.  While no call of sensor_driver_read is running, daq_req_new and
\* daq_in_proc are both clear: the call clears them on each of its return
\* paths.
C36_FlagsCleared ==
    ~Reading => ~bma253.daq_req_new /\ ~bma253.daq_in_proc

\* ------------------------------------------------------------------------
\* Properties of the ownership slot in the waiting calls
\* ------------------------------------------------------------------------

\* C37.  A bma253_wait_for_tap that has returned left pdd->interrupt clear
\* and the reference count of the pin at its value of before the call,
\* whether it took the slot or not and whatever it returns.
C37_SlotReleased ==
    solo.op = "wait_for_tap" /\ solo.phase \in {"out", "woken"}
    => /\ bma253.pdd.interrupt = "NULL"
       /\ bma253.pdd.int_ref_cnt = solo.pre.pdd.int_ref_cnt

\* ------------------------------------------------------------------------
\* Properties of the registration of a notification
\* ------------------------------------------------------------------------

\* the step is a sensor_driver_set_notification of thread t in which a
\* transfer failed before the call got to bma253_arbitrate_hw_cfg: in
\* interim_power or in bma253_enable_notify_interrupt
FailsEarly(t) ==
    /\ Calls(t, "set_notification")
    /\ \E k \in 1 .. sensor_driver_set_notification(Ctx(NoFault),
                                                    thr'[t].arg).ops,
          eq \in BOOLEAN :
          LET r == SetNotificationEnter(Ctx(Bus(k, eq)), thr'[t].arg)
          IN /\ ~r.go /\ Faulted(r.c)
             /\ r.c.d = bma253' /\ r.c.hw = hw' /\ r.c.rc = thr'[t].rc

\* C38.  A sensor_driver_set_notification that fails in interim_power or in
\* bma253_enable_notify_interrupt leaves the NOTIFY bit of registered_mask,
\* snec_evtype, int_ref_cnt and ev_enabled at their values of before the
\* call, and the NOTIFY bit clear, so that the next call is not refused as
\* busy.
C38_RolledBack ==
    [][\A t \in DOMAIN thr :
          FailsEarly(t)
          => /\ bma253'.pdd.registered_mask = bma253.pdd.registered_mask
             /\ bma253'.pdd.notify_ctx.snec_evtype =
                    bma253.pdd.notify_ctx.snec_evtype
             /\ bma253'.pdd.int_ref_cnt = bma253.pdd.int_ref_cnt
             /\ bma253'.ev_enabled = bma253.ev_enabled
             /\ BMA253_NOTIFY_MASK \notin bma253'.pdd.registered_mask]_vars

\* ------------------------------------------------------------------------
\* Properties of the deferred hardware configuration
\* ------------------------------------------------------------------------

\* the step ends the sensor_driver_read of thread t after the loop of
\* bma253_stream_read
ReadEnds(t) ==
    /\ thr[t].op = "sensor_driver_read" /\ thr[t].pc = "run"
    /\ thr'[t].pc = "ret"

\* C39.  When sensor_driver_set_notification ran while a read was in
\* progress, so that bma253_arbitrate_hw_cfg deferred, and the read then
\* ends on a bus that works, with the event still enabled and neither
\* daq_req_new nor daq_in_proc set, the power mode of the device is LPM_1,
\* what the arbiter computes for these consumers.
C39_DeferredTarget ==
    [][\A t \in DOMAIN thr :
          /\ ReadEnds(t)
          /\ solo.phase = "decided" /\ solo.daq_in_proc /\ solo.rc = OK
          /\ faults' = 0
          /\ ~bma253'.daq_req_new /\ ~bma253'.daq_in_proc
          /\ bma253'.ev_enabled # {}
          => /\ bma253'.power = "LPM_1"
             /\ hw'["PMU_LPW"] = "LPM_1"]_vars

\* ------------------------------------------------------------------------
\* Properties of the set of enabled events
\* ------------------------------------------------------------------------

\* C40.  ev_enabled is non-empty only while the NOTIFY bit of
\* registered_mask is set, and it is then the one event of snec_evtype; and
\* when sensor_driver_unset_notification has returned for an event, with 0
\* or with an error of the bus, ev_enabled does not hold that event.
C40_EnabledIsSubscribed ==
    /\ bma253.ev_enabled # {}
       => /\ BMA253_NOTIFY_MASK \in bma253.pdd.registered_mask
          /\ bma253.ev_enabled = bma253.pdd.notify_ctx.snec_evtype
          /\ Cardinality(bma253.ev_enabled) = 1
    /\ \A t \in DOMAIN thr :
          /\ thr[t].pc = "ret" /\ thr[t].op = "unset_notification"
          /\ ValidEvent(thr[t].arg)
          => thr[t].arg \cap bma253.ev_enabled = {}

=============================================================================
